---- MODULE Spec2Model ----
(***************************************************************************)
(* Focus and keyboard interaction core of the a11ypros component library:  *)
(* the focus registry (getFocusableElements and friends), the useFocusTrap *)
(* and useFocusReturn hooks, the roving keyboard navigation of Tabs, the   *)
(* row navigation of DataTable, the useAriaLive announcer, and the         *)
(* transient surfaces built on them: Toast with ToastProvider, the two     *)
(* Modal implementations, and Accordion.                                   *)
(*                                                                         *)
(* The document is a fixed sequence of elements in document order:         *)
(*   Before, ContainerEl, Child(1) .. Child(n), After                      *)
(* Before and After are ordinary buttons outside the container; the        *)
(* children are the container's descendants.  document.activeElement is    *)
(* the variable focus; NoElement stands for "no element has focus".        *)
(***************************************************************************)
EXTENDS Integers, Sequences, FiniteSets, Bags, TLC

\* Largest number of descendants of the container.
MaxChildren == 2

\* Largest number of items of a Tabs widget.
MaxTabs == 5

\* Largest number of items of a Tabs widget whose key handler is run step by step.
MaxKeyItems == 3

\* Largest number of rows of a DataTable.
MaxRows == 3

\* Largest number of components calling useAriaLive at the same time.
MaxOwners == 2

\* Largest number of toasts a ToastProvider is asked to show.
MaxToasts == 2

\* Largest number of items of an Accordion.
MaxAccordionItems == 3

\* Largest number of onClose calls of a Modal that are counted.
MaxCloseCalls == 3

VARIABLES
    children,               \* attributes of the container's descendants, in document order
    containerTabindex,      \* the container's own tabindex attribute
    bodyIsActive,           \* the host reports document.body (not null) as activeElement when nothing has focus
    brokenFocus,            \* the elements of the document whose focus() throws
    raised,                 \* the latest step of a focus hook let an exception propagate to its caller
    warned,                 \* the latest step of a focus hook called console.warn
    focus,                  \* document.activeElement
    trapMounted,            \* a component calling useFocusTrap is mounted
    trapEnabled,            \* useFocusTrap's enabled argument
    trapHasContainer,       \* containerRef.current is set
    trapListening,          \* the effect's keydown listener is installed (its cleanup is pending)
    previousActiveElement,  \* useFocusTrap's ref of the same name
    trapOrigin,             \* history: document.activeElement just before the latest trap activation
    defaultPrevented,       \* whether the latest keydown's default action was suppressed
    queryResult,            \* result of the latest direct getFocusableElements(container) call
    frMounted,              \* a component calling useFocusReturn is mounted
    returnOnUnmount,        \* useFocusReturn's first argument (the active flag)
    returnElement,          \* useFocusReturn's second argument
    savedElementRef,        \* useFocusReturn's ref of the same name
    frCleanup,              \* pending cleanup of useFocusReturn's effect, with the returnElement it closed over
    frOrigin,               \* history: document.activeElement just before the latest false->true activation
    frFirstSaved,           \* history: what the latest false->true activation captured
    frPhase,                \* history: idle, active, deactivated, deactivatedAgain
    items,                  \* Tabs: sequence of items, each [disabled |-> BOOLEAN]; ids are the indices
    orientation,            \* Tabs: "horizontal" or "vertical"
    activationMode,         \* Tabs: "automatic" or "manual"
    hasOnSelectionChange,   \* Tabs: an onSelectionChange callback was supplied
    controlledSelectedId,   \* Tabs: the selectedId prop (0: not supplied)
    internalSelectedId,     \* Tabs: useState internalSelectedId (0: undefined)
    focusedId,              \* Tabs: useState focusedId (0: null/undefined)
    tabFocus,               \* Tabs: index of the tab control holding DOM focus (0: none)
    reported,               \* Tabs: the id last passed to onSelectionChange (0: none yet)
    lastKey,                \* history: key and index of the Tabs keydown, when the latest step was one
    arrowRightRun,          \* history: ArrowRight keydowns (0, 1 or 2) made in a row from the state with focus and selection on the first tab
    keyPc,                  \* Tabs.handleKeyDown run step by step: "idle" or "loop" (in the skipping loop)
    keyEvent,               \* Tabs.handleKeyDown: event.key of the run in progress or just finished
    keyCurrentIndex,        \* Tabs.handleKeyDown: its currentIndex argument
    keyNewIndex,            \* Tabs.handleKeyDown: its local newIndex
    keyIterations,          \* Tabs.handleKeyDown: executions of the loop body in this run
    tableRows,              \* DataTable: data.length; the row at index k has id k
    tableSelectable,        \* DataTable: the selectable prop
    tableHasOnSelectionChange, \* DataTable: an onSelectionChange callback was supplied
    tableSelectedRows,      \* DataTable: the selectedRows prop, as a set of row ids
    tableReported,          \* DataTable: the rows last passed to onSelectionChange, not yet applied by the owner
    tableFocus,             \* DataTable: index of the row holding DOM focus (-1: none)
    tableFocusedRow,        \* DataTable: useState focusedRow (-1: null)
    tableLastKey,           \* history: key and row index of the DataTable keydown, when the latest step was one
    liveRegions,            \* useAriaLive: per politeness level, the textContent of each element with id aria-live-<level>, in document order
    liveOwners,             \* useAriaLive: the bag of mounted owners, each the arguments of its latest call
    liveAnnounced,          \* history: per level, the text of the most recent announcement ("" before the first)
    liveChanged,            \* history: per level, whether the surface's content has changed since the most recent announcement
    liveLast,               \* history: level and text of the latest useAriaLive step, and whether it repeats the previous announcement
    toastList,              \* ToastProvider: useState toasts as last committed; each entry is a mounted Toast
    toastPendingRemove,     \* ToastProvider: ids given to removeToast whose state update is not yet committed
    toastPaused,            \* Toast: per id, useState isPaused as last committed
    toastWantPaused,        \* Toast: per id, the value of the latest setIsPaused call (equal to toastPaused when none is pending)
    toastTimer,             \* Toast: per id, the time left on the timeout its effect armed (-1: no live timeout)
    toastHover,             \* the id of the toast under the pointer (0: none)
    toastAdded,             \* ToastProvider: number of addToast calls so far
    toastLast,              \* history: what the latest Toast step did
    modalMounted,           \* Modal (dialog element): the component is mounted
    modalIsOpen,            \* Modal (dialog element): the isOpen prop of the latest render
    modalCloseOnEscape,     \* Modal: the closeOnEscape prop
    modalCloseOnBackdropClick, \* Modal: the closeOnBackdropClick prop
    dialogOpen,             \* Modal: the dialog element's open state
    modalCloseCalls,        \* history: onClose calls so far, counted up to MaxCloseCalls
    modalLast,              \* history: what the latest Modal step did
    accordionDefaultOpen,   \* Accordion: per item, its defaultOpen prop
    accordionAllowMultiple, \* Accordion: the allowMultiple prop
    accordionOpen,          \* Accordion: per item, the details element's open state
    accordionToggleQueue,   \* Accordion: the items whose details element has a toggle event queued
    portalOpen,             \* Modal (portal): the isOpen prop of the latest render
    lastOp                  \* history: name of the latest step

domVars == <<children, containerTabindex, bodyIsActive, brokenFocus>>
faultVars == <<raised, warned>>
trapVars == <<trapMounted, trapEnabled, trapHasContainer, trapListening,
              previousActiveElement, trapOrigin, defaultPrevented, queryResult>>
frVars == <<frMounted, returnOnUnmount, returnElement, savedElementRef, frCleanup,
            frOrigin, frFirstSaved, frPhase>>
tabsVars == <<items, orientation, activationMode, hasOnSelectionChange,
              controlledSelectedId, internalSelectedId, focusedId, tabFocus,
              reported, lastKey, arrowRightRun>>
keyVars == <<keyPc, keyEvent, keyCurrentIndex, keyNewIndex, keyIterations>>
tableVars == <<tableRows, tableSelectable, tableHasOnSelectionChange, tableSelectedRows,
               tableReported, tableFocus, tableFocusedRow, tableLastKey>>
liveVars == <<liveRegions, liveOwners, liveAnnounced, liveChanged, liveLast>>
toastVars == <<toastList, toastPendingRemove, toastPaused, toastWantPaused, toastTimer,
               toastHover, toastAdded, toastLast>>
modalVars == <<modalMounted, modalIsOpen, modalCloseOnEscape, modalCloseOnBackdropClick, dialogOpen,
               modalCloseCalls, modalLast>>
accordionVars == <<accordionDefaultOpen, accordionAllowMultiple, accordionOpen,
                   accordionToggleQueue>>
surfaceVars == <<toastVars, modalVars, accordionVars, portalOpen>>
widgetVars == <<keyVars, tableVars, liveVars, surfaceVars>>
vars == <<domVars, faultVars, focus, trapVars, frVars, tabsVars, widgetVars, lastOp>>

(***************************************************************************)
(* The document and the host's focus primitives                            *)
(***************************************************************************)

NoElement == [at |-> "none", i |-> 0]
Before == [at |-> "before", i |-> 0]
ContainerEl == [at |-> "container", i |-> 0]
After == [at |-> "after", i |-> 0]
\* document.body: what document.activeElement is when no element has focus.
Body == [at |-> "body", i |-> 0]
Child(i) == [at |-> "child", i |-> i]

PlainButton == [tag |-> "button", disabled |-> FALSE, hidden |-> FALSE, tabindex |-> "none"]

\* The kinds of descendant the container may hold.
ElementKinds ==
    { PlainButton,
      [tag |-> "button", disabled |-> TRUE,  hidden |-> FALSE, tabindex |-> "none"],
      [tag |-> "button", disabled |-> FALSE, hidden |-> TRUE,  tabindex |-> "none"],
      [tag |-> "button", disabled |-> FALSE, hidden |-> FALSE, tabindex |-> "-1"],
      [tag |-> "button", disabled |-> TRUE,  hidden |-> FALSE, tabindex |-> "0"] }

ChildIds == 1..Len(children)

\* The document in document order.
Doc == <<Before, ContainerEl>> \o [i \in ChildIds |-> Child(i)] \o <<After>>

Elements == {Doc[p] : p \in 1..Len(Doc)}

Attr(e) ==
    IF e.at = "child" THEN children[e.i]
    ELSE IF e.at = "container"
         THEN [tag |-> "div", disabled |-> FALSE, hidden |-> FALSE, tabindex |-> containerTabindex]
         ELSE IF e.at = "body"
              THEN [tag |-> "body", disabled |-> FALSE, hidden |-> FALSE, tabindex |-> "none"]
              ELSE PlainButton

\* The host focuses an element only if it is rendered, not a disabled control, and
\* either natively focusable or given a tabindex.
HostFocusable(a) ==
    /\ ~a.hidden
    /\ ~a.disabled
    /\ (a.tag = "button" \/ a.tabindex # "none")

\* Sequential (Tab) navigation reaches the focusable elements whose tabindex is not negative.
TabReachable(a) == HostFocusable(a) /\ a.tabindex # "-1"

\* Objects that are no elements of the document, passed where an element is
\* expected: one without a focus method, and one whose focus method throws.
PlainObject == [at |-> "object", i |-> 0]
ThrowingObject == [at |-> "object", i |-> 1]

\* typeof e.focus === 'function'
HasFocusMethod(e) == e # PlainObject

\* e.focus() throws.
FocusThrows(e) == e = ThrowingObject \/ e \in brokenFocus

\* element.focus(): document.activeElement afterwards.  A call that throws leaves
\* it as it was.
FocusCall(target, cur) ==
    IF target # NoElement /\ ~FocusThrows(target) /\ HostFocusable(Attr(target))
    THEN target ELSE cur

DocPos(e) == IF e = NoElement THEN 0 ELSE CHOOSE p \in 1..Len(Doc) : Doc[p] = e

SetMin(S) == CHOOSE x \in S : \A y \in S : x <= y
SetMax(S) == CHOOSE x \in S : \A y \in S : x >= y

\* The host's default action for Tab / Shift+Tab: the next / previous Tab-reachable
\* element in document order, continuing at the other end of the document.
HostTabMove(cur, shift) ==
    LET reach == {p \in 1..Len(Doc) : TabReachable(Attr(Doc[p]))}
        ahead == {p \in reach : p > DocPos(cur)}
        behind == {p \in reach : p < DocPos(cur)}
    IN  IF reach = {} THEN cur
        ELSE IF shift
             THEN Doc[IF behind # {} THEN SetMax(behind) ELSE SetMax(reach)]
             ELSE Doc[IF ahead # {} THEN SetMin(ahead) ELSE SetMin(reach)]

\* document.activeElement instanceof HTMLElement: true of every element; when nothing
\* has focus activeElement is the body (an HTMLElement) or null, depending on the host.
InstanceOfHTMLElement(e) == e # NoElement \/ bodyIsActive

(***************************************************************************)
(* Focus registry: utils/focus                                             *)
(***************************************************************************)

\* An element matches the focusableSelectors list.
MatchesFocusableSelectors(a) ==
    \/ a.tag = "a" /\ a.tabindex # "-1"
    \/ a.tag = "button" /\ ~a.disabled /\ a.tabindex # "-1"
    \/ a.tabindex # "none" /\ a.tabindex # "-1"

RECURSIVE SelectIds(_, _)
SelectIds(i, n) ==
    IF i > n THEN <<>>
    ELSE (IF MatchesFocusableSelectors(children[i]) THEN <<Child(i)>> ELSE <<>>)
         \o SelectIds(i + 1, n)

\* getFocusableElements(container): the matching descendants in document order.
GetFocusableElements == SelectIds(1, Len(children))

GetFirstFocusable ==
    IF Len(GetFocusableElements) = 0 THEN NoElement ELSE GetFocusableElements[1]

GetLastFocusable ==
    IF Len(GetFocusableElements) = 0 THEN NoElement
    ELSE GetFocusableElements[Len(GetFocusableElements)]


(***************************************************************************)
(* useFocusTrap                                                            *)
(***************************************************************************)

\* What the effect focuses on activation: the first focusable, else the container.
TrapActivationTarget ==
    IF GetFirstFocusable # NoElement THEN GetFirstFocusable ELSE ContainerEl

\* Mutant of TrapCleanupFocus: the cleanup only removes the listener.
TrapCleanupNoRestore(prev, cur) == cur

\* The cleanup's focus restoration.
TrapCleanupFocus(prev, cur) ==
    IF prev # NoElement THEN FocusCall(prev, cur) ELSE cur

\* The cleanup calls previousActiveElement.current.focus() unguarded: what it
\* throws leaves the cleanup.
TrapCleanupRaises(prev) == prev # NoElement /\ FocusThrows(prev)

\* handleKeyDown for a Tab keydown reaching the container: whether the default was
\* prevented, and document.activeElement afterwards.
TrapKeyDown(shift, cur) ==
    LET firstElement == GetFirstFocusable
        lastElement == GetLastFocusable
    IN  IF Len(GetFocusableElements) = 0
        THEN [prevented |-> TRUE, focus |-> cur, raised |-> FALSE]
        ELSE IF shift
             THEN IF cur = firstElement
                  THEN [prevented |-> TRUE, focus |-> FocusCall(lastElement, cur),
                        raised |-> FocusThrows(lastElement)]
                  ELSE [prevented |-> FALSE, focus |-> cur, raised |-> FALSE]
             ELSE IF cur = lastElement
                  THEN [prevented |-> TRUE, focus |-> FocusCall(firstElement, cur),
                        raised |-> FocusThrows(firstElement)]
                  ELSE [prevented |-> FALSE, focus |-> cur, raised |-> FALSE]

\* Mutant of TrapEffect: document.activeElement is not saved before focus moves.
TrapEffectNoSave(enabled, hasContainer, cur, prev) ==
    IF ~enabled \/ ~hasContainer
    THEN [listening |-> FALSE, prev |-> prev, focus |-> cur, raised |-> FALSE]
    ELSE [listening |-> ~FocusThrows(TrapActivationTarget), prev |-> prev,
          focus |-> FocusCall(TrapActivationTarget, cur),
          raised |-> FocusThrows(TrapActivationTarget)]

\* The effect body, run with the given arguments from document.activeElement = cur
\* and ref value prev.  The focus() call on activation is unguarded: if it throws,
\* the effect is left before the listener is added and no cleanup is returned.
TrapEffect(enabled, hasContainer, cur, prev) ==
    IF ~enabled \/ ~hasContainer
    THEN [listening |-> FALSE, prev |-> prev, focus |-> cur, raised |-> FALSE]
    ELSE [listening |-> ~FocusThrows(TrapActivationTarget),
          prev |-> IF InstanceOfHTMLElement(cur)
                   THEN (IF cur = NoElement THEN Body ELSE cur)
                   ELSE prev,
          focus |-> FocusCall(TrapActivationTarget, cur),
          raised |-> FocusThrows(TrapActivationTarget)]

\* A component calling useFocusTrap mounts: the effect runs.  An exception leaving
\* the effect reaches React, which unmounts the component.
TrapMount(enabled, hasContainer) ==
    /\ ~trapMounted
    /\ LET r == TrapEffect(enabled, hasContainer, focus, NoElement)
       IN  /\ trapMounted' = ~r.raised
           /\ raised' = r.raised
           /\ trapEnabled' = enabled
           /\ trapHasContainer' = hasContainer
           /\ trapListening' = r.listening
           /\ previousActiveElement' = r.prev
           /\ focus' = r.focus
           /\ trapOrigin' = IF enabled /\ hasContainer THEN focus ELSE NoElement
           /\ lastOp' = IF enabled /\ hasContainer THEN "TrapActivate" ELSE "Other"
    /\ defaultPrevented' = FALSE
    /\ warned' = FALSE
    /\ UNCHANGED <<domVars, widgetVars, queryResult, frVars, tabsVars>>

\* A re-render with a changed enabled argument: the previous effect's cleanup, if it
\* returned one, then the effect again.
TrapRender(enabled, hasContainer) ==
    /\ trapMounted
    /\ enabled # trapEnabled
    /\ LET cleaned == IF trapListening
                      THEN TrapCleanupFocus(previousActiveElement, focus)
                      ELSE focus
           cleanupRaises == trapListening /\ TrapCleanupRaises(previousActiveElement)
           r == IF cleanupRaises
                THEN [listening |-> FALSE, prev |-> previousActiveElement,
                      focus |-> cleaned, raised |-> TRUE]
                ELSE TrapEffect(enabled, hasContainer, cleaned, previousActiveElement)
       IN  /\ trapMounted' = ~r.raised
           /\ raised' = r.raised
           /\ trapEnabled' = enabled
           /\ trapHasContainer' = hasContainer
           /\ trapListening' = r.listening
           /\ previousActiveElement' = r.prev
           /\ focus' = r.focus
           /\ trapOrigin' = IF enabled /\ hasContainer THEN cleaned ELSE trapOrigin
           /\ lastOp' = IF enabled /\ hasContainer THEN "TrapActivate"
                        ELSE IF trapEnabled /\ trapHasContainer THEN "TrapDeactivate"
                        ELSE "Other"
    /\ defaultPrevented' = FALSE
    /\ warned' = FALSE
    /\ UNCHANGED <<domVars, widgetVars, queryResult, frVars, tabsVars>>

TrapUnmount ==
    /\ trapMounted
    /\ trapMounted' = FALSE
    /\ trapListening' = FALSE
    /\ focus' = IF trapListening THEN TrapCleanupFocus(previousActiveElement, focus) ELSE focus
    /\ lastOp' = IF trapEnabled /\ trapHasContainer THEN "TrapUnmountActive" ELSE "Other"
    /\ defaultPrevented' = FALSE
    /\ raised' = (trapListening /\ TrapCleanupRaises(previousActiveElement))
    /\ warned' = FALSE
    /\ UNCHANGED <<domVars, widgetVars, trapEnabled, trapHasContainer, previousActiveElement, trapOrigin,
                   queryResult, frVars, tabsVars>>

\* The user presses Tab or Shift+Tab: the container's listener sees the keydown when
\* it is installed and the event target is the container or inside it.
PressTab(shift) ==
    /\ LET r == IF trapListening /\ focus.at \in {"child", "container"}
                THEN TrapKeyDown(shift, focus)
                ELSE [prevented |-> FALSE, focus |-> focus, raised |-> FALSE]
       IN  /\ defaultPrevented' = r.prevented
           /\ focus' = IF r.prevented THEN r.focus ELSE HostTabMove(focus, shift)
           /\ raised' = r.raised
    /\ warned' = FALSE
    /\ lastOp' = IF shift THEN "ShiftTab" ELSE "Tab"
    /\ UNCHANGED <<domVars, widgetVars, trapMounted, trapEnabled, trapHasContainer, trapListening,
                   previousActiveElement, trapOrigin, queryResult, frVars, tabsVars>>

\* The user moves focus with the pointer: to any focusable element, or to none.
UserFocus(e) ==
    /\ e = NoElement \/ HostFocusable(Attr(e))
    /\ e # focus
    /\ focus' = e
    /\ lastOp' = "Other"
    /\ defaultPrevented' = FALSE
    /\ raised' = FALSE
    /\ warned' = FALSE
    /\ UNCHANGED <<domVars, widgetVars, trapMounted, trapEnabled, trapHasContainer, trapListening,
                   previousActiveElement, trapOrigin, queryResult, frVars, tabsVars>>

\* A direct call of the exported getFocusableElements on the container.
QueryFocusable ==
    /\ queryResult' = [called |-> TRUE, result |-> GetFocusableElements]
    /\ ~queryResult.called
    /\ lastOp' = "Query"
    /\ UNCHANGED <<domVars, faultVars, widgetVars, focus, trapMounted, trapEnabled, trapHasContainer, trapListening,
                   previousActiveElement, trapOrigin, defaultPrevented, frVars, tabsVars>>

(***************************************************************************)
(* useFocusReturn                                                          *)
(***************************************************************************)

NoCleanup == [present |-> FALSE, returnElement |-> NoElement]

\* The values given as the returnElement argument (NoElement: undefined or null).
ReturnTargets == {NoElement, Before, After}

\* Mutant of FREffect: the early return on a false flag is missing.
FREffectNoGuard(flag, ret, cur, saved) ==
    [cleanup |-> [present |-> TRUE, returnElement |-> ret],
     saved |-> IF InstanceOfHTMLElement(cur)
               THEN (IF cur = NoElement THEN Body ELSE cur)
               ELSE saved]

\* The effect body: early return when the flag is false, else save
\* document.activeElement and return a cleanup closed over returnElement.
FREffect(flag, ret, cur, saved) ==
    IF ~flag
    THEN [cleanup |-> NoCleanup, saved |-> saved]
    ELSE [cleanup |-> [present |-> TRUE, returnElement |-> ret],
          saved |-> IF InstanceOfHTMLElement(cur)
                    THEN (IF cur = NoElement THEN Body ELSE cur)
                    ELSE saved]

\* const elementToFocus = returnElement || savedElementRef.current
FRElementToFocus(ret, saved) == IF ret # NoElement THEN ret ELSE saved

\* The effect's cleanup: focus elementToFocus if it is set and has a focus method.
FRCleanupFocus(c, saved, cur) ==
    LET elementToFocus == FRElementToFocus(c.returnElement, saved)
    IN  IF elementToFocus # NoElement /\ HasFocusMethod(elementToFocus)
        THEN FocusCall(elementToFocus, cur)
        ELSE cur

\* The cleanup's catch block runs, calling console.warn: focus() was called and threw.
FRCleanupWarns(c, saved) ==
    LET elementToFocus == FRElementToFocus(c.returnElement, saved)
    IN  elementToFocus # NoElement /\ HasFocusMethod(elementToFocus)
          /\ FocusThrows(elementToFocus)

\* Mutant of FRCleanupRaises: the focus() call is not inside try/catch.
FRCleanupRaisesUncaught(c, saved) == FRCleanupWarns(c, saved)

\* An exception leaves the cleanup: never, the only call that can throw is inside
\* try/catch.
FRCleanupRaises(c, saved) == FALSE

FRMount(flag, ret) ==
    /\ ~frMounted
    /\ LET r == FREffect(flag, ret, focus, NoElement)
       IN    /\ frMounted' = TRUE
             /\ returnOnUnmount' = flag
             /\ returnElement' = ret
             /\ frCleanup' = r.cleanup
             /\ savedElementRef' = r.saved
             /\ frOrigin' = IF flag THEN focus ELSE NoElement
             /\ frFirstSaved' = IF flag THEN r.saved ELSE NoElement
             /\ frPhase' = IF flag THEN "active" ELSE "idle"
             /\ lastOp' = IF flag THEN "FRActivate" ELSE "FRInactive"
    /\ raised' = FALSE
    /\ warned' = FALSE
    /\ UNCHANGED <<domVars, widgetVars, focus, trapVars, tabsVars>>

\* A re-render with a changed argument (the effect's dependencies are both
\* arguments): the pending cleanup, if any, then the effect again.
FRRender(flag, ret) ==
    /\ frMounted
    /\ <<flag, ret>> # <<returnOnUnmount, returnElement>>
    /\ LET cleaned == IF frCleanup.present
                      THEN FRCleanupFocus(frCleanup, savedElementRef, focus)
                      ELSE focus
           r == FREffect(flag, ret, cleaned, savedElementRef)
           activation == flag /\ ~returnOnUnmount
       IN        /\ returnOnUnmount' = flag
                 /\ returnElement' = ret
                 /\ frCleanup' = r.cleanup
                 /\ savedElementRef' = r.saved
                 /\ focus' = cleaned
                 /\ frOrigin' = IF activation THEN focus ELSE frOrigin
                 /\ frFirstSaved' = IF activation THEN r.saved ELSE frFirstSaved
                 /\ frPhase' = IF flag THEN "active"
                               ELSE IF returnOnUnmount THEN "deactivated"
                               ELSE IF frPhase = "idle" THEN "idle" ELSE "deactivatedAgain"
                 /\ lastOp' = IF activation THEN "FRActivate"
                              ELSE IF flag THEN "FRRerun"
                              ELSE IF returnOnUnmount THEN "FRDeactivate" ELSE "FRInactive"
    /\ raised' = (frCleanup.present /\ FRCleanupRaises(frCleanup, savedElementRef))
    /\ warned' = (frCleanup.present /\ FRCleanupWarns(frCleanup, savedElementRef))
    /\ UNCHANGED <<domVars, widgetVars, frMounted, trapVars, tabsVars>>

FRUnmount ==
    /\ frMounted
    /\ frMounted' = FALSE
    /\ frCleanup' = NoCleanup
    /\ focus' = IF frCleanup.present
                THEN FRCleanupFocus(frCleanup, savedElementRef, focus)
                ELSE focus
    /\ frPhase' = IF returnOnUnmount THEN "deactivated"
                  ELSE IF frPhase = "idle" THEN "idle" ELSE "deactivatedAgain"
    /\ lastOp' = IF returnOnUnmount THEN "FRDeactivate" ELSE "FRInactive"
    /\ raised' = (frCleanup.present /\ FRCleanupRaises(frCleanup, savedElementRef))
    /\ warned' = (frCleanup.present /\ FRCleanupWarns(frCleanup, savedElementRef))
    /\ UNCHANGED <<domVars, widgetVars, returnOnUnmount, returnElement, savedElementRef, frOrigin,
                   frFirstSaved, trapVars, tabsVars>>

(***************************************************************************)
(* Tabs: roving keyboard navigation                                        *)
(* Indices are 0-based as in the code; the id of the item at index k is    *)
(* k + 1, and id 0 stands for undefined / null.                            *)
(***************************************************************************)

\* lastKey when the latest step was not a keydown on a tab.
NoKey == [key |-> "", from |-> 0]

Keys == {"Home", "End", "PageUp", "PageDown",
         "ArrowRight", "ArrowLeft", "ArrowDown", "ArrowUp", "Enter", " "}

IsNavigationKey(key) == key \in {"Home", "End", "PageUp", "PageDown"}

IsArrowKey(key) == key \in {"ArrowUp", "ArrowDown", "ArrowLeft", "ArrowRight"}

IdOf(index) == index + 1

\* items[index]?.disabled
ItemDisabled(its, index) ==
    index >= 0 /\ index < Len(its) /\ its[index + 1].disabled

\* The switch on event.key: the index before disabled tabs are skipped.
SwitchIndex(key, currentIndex, n, isHorizontal) ==
    CASE key = "Home" -> 0
      [] key = "End" -> n - 1
      [] key = "ArrowRight" ->
           IF isHorizontal THEN (currentIndex + 1) % n ELSE currentIndex
      [] key = "ArrowLeft" ->
           IF isHorizontal THEN (currentIndex - 1 + n) % n ELSE currentIndex
      [] key = "ArrowDown" ->
           IF ~isHorizontal THEN (currentIndex + 1) % n ELSE currentIndex
      [] key = "ArrowUp" ->
           IF ~isHorizontal THEN (currentIndex - 1 + n) % n ELSE currentIndex
      [] OTHER -> currentIndex

\* Mutant of SkipForward: Home steps backward like End.
SkipForwardArrowsOnly(key) == key \in {"ArrowRight", "ArrowDown"}

\* The direction in which the skipping loop steps.
SkipForward(key) == key \in {"Home", "ArrowRight", "ArrowDown"}

\* The while loop skipping disabled tabs.
RECURSIVE SkipDisabled(_, _, _, _)
SkipDisabled(newIndex, currentIndex, key, its) ==
    IF ItemDisabled(its, newIndex) /\ newIndex # currentIndex
    THEN SkipDisabled(IF SkipForward(key)
                      THEN (newIndex + 1) % Len(its)
                      ELSE (newIndex - 1 + Len(its)) % Len(its),
                      currentIndex, key, its)
    ELSE newIndex

\* The index handleKeyDown arrives at for a navigation or arrow key.
NavTarget(key, currentIndex, its, isHorizontal) ==
    SkipDisabled(SwitchIndex(key, currentIndex, Len(its), isHorizontal),
                 currentIndex, key, its)

\* selectedId = controlledSelectedId ?? internalSelectedId
SelectedId == IF controlledSelectedId # 0 THEN controlledSelectedId ELSE internalSelectedId

\* Mutant of HandleSelect: the owner is never told; the id is only kept internally.
HandleSelectInternalOnly(id, st) ==
    [internalSelectedId |-> id,
     reported |-> st.reported,
     focusedId |-> IF activationMode = "manual" THEN id ELSE st.focusedId]

\* handleSelect(id): the state it leaves, given the state st it starts from.
HandleSelect(id, st) ==
    [internalSelectedId |-> IF hasOnSelectionChange THEN st.internalSelectedId ELSE id,
     reported |-> IF hasOnSelectionChange THEN id ELSE st.reported,
     focusedId |-> IF activationMode = "manual" THEN id ELSE st.focusedId]

\* Mutant of NewTabSelectable: the disabled check is missing.
NewTabSelectableAny(its, newIndex) == newIndex >= 0 /\ newIndex < Len(its)

\* if (newTab && !newTab.disabled)
NewTabSelectable(its, newIndex) ==
    newIndex >= 0 /\ newIndex < Len(its) /\ ~ItemDisabled(its, newIndex)

\* Mutant of ActivatesOnMove: moving focus selects in both modes.
ActivatesOnMoveAlways(mode) == TRUE

\* if (activationMode === 'automatic'): moving focus also selects.
ActivatesOnMove(mode) == mode = "automatic"

\* The run of ArrowRight keydowns after one more keydown: a run starts on the first
\* tab while it is the selected one, and any other key ends it.
ArrowRightRunAfter(key) ==
    IF key # "ArrowRight" THEN 0
    ELSE IF arrowRightRun = 1 THEN 2
    ELSE IF tabFocus = 1 /\ SelectedId = 1 THEN 1
    ELSE 0

TabsState == [internalSelectedId |-> internalSelectedId, reported |-> reported,
              focusedId |-> focusedId]

\* handleKeyDown(event, currentIndex) on the tab holding DOM focus, including the
\* focus event that tabRefs.current.get(id).focus() raises (onFocus: setFocusedId).
TabsKeyDown(key) ==
    /\ tabFocus # 0
    /\ LET currentIndex == tabFocus - 1
           newIndex == NavTarget(key, currentIndex, items, orientation = "horizontal")
       IN  IF activationMode = "manual" /\ key \in {"Enter", " "}
           THEN LET st == IF ~ItemDisabled(items, currentIndex)
                          THEN HandleSelect(IdOf(currentIndex), TabsState)
                          ELSE TabsState
                IN  /\ internalSelectedId' = st.internalSelectedId
                    /\ reported' = st.reported
                    /\ focusedId' = st.focusedId
                    /\ tabFocus' = tabFocus
           ELSE IF (IsNavigationKey(key) \/ IsArrowKey(key))
                   /\ NewTabSelectable(items, newIndex)
           THEN LET st == IF ActivatesOnMove(activationMode)
                          THEN HandleSelect(IdOf(newIndex), TabsState)
                          ELSE TabsState
                IN  /\ internalSelectedId' = st.internalSelectedId
                    /\ reported' = st.reported
                    /\ focusedId' = IdOf(newIndex)
                    /\ tabFocus' = IdOf(newIndex)
           ELSE IF key \in {"Enter", " "} /\ ~ItemDisabled(items, currentIndex)
           THEN \* not prevented: the button's native activation raises click
                LET st == HandleSelect(IdOf(currentIndex), TabsState)
                IN  /\ internalSelectedId' = st.internalSelectedId
                    /\ reported' = st.reported
                    /\ focusedId' = st.focusedId
                    /\ tabFocus' = tabFocus
           ELSE UNCHANGED <<internalSelectedId, reported, focusedId, tabFocus>>
    /\ lastKey' = [key |-> key, from |-> tabFocus - 1]
    /\ arrowRightRun' = ArrowRightRunAfter(key)
    /\ lastOp' = "TabsKey"
    /\ UNCHANGED <<domVars, faultVars, widgetVars, focus, trapVars, frVars, items, orientation, activationMode,
                   hasOnSelectionChange, controlledSelectedId>>

\* A pointer click on the tab at the index: the button takes focus (onFocus), then
\* onClick selects it.  A disabled button receives neither event.
TabsClick(index) ==
    /\ index \in 0..(Len(items) - 1)
    /\ ~ItemDisabled(items, index)
    /\ LET st == HandleSelect(IdOf(index), [TabsState EXCEPT !.focusedId = IdOf(index)])
       IN  /\ internalSelectedId' = st.internalSelectedId
           /\ reported' = st.reported
           /\ focusedId' = st.focusedId
    /\ tabFocus' = IdOf(index)
    /\ lastKey' = NoKey
    /\ arrowRightRun' = 0
    /\ lastOp' = "TabsClick"
    /\ UNCHANGED <<domVars, faultVars, widgetVars, focus, trapVars, frVars, items, orientation, activationMode,
                   hasOnSelectionChange, controlledSelectedId>>

\* The owner of a controlled Tabs applies the selection it was told about.
TabsOwnerApplies ==
    /\ controlledSelectedId # 0
    /\ reported # 0
    /\ controlledSelectedId # reported
    /\ controlledSelectedId' = reported
    /\ lastKey' = NoKey
    /\ lastOp' = "TabsOwnerApplies"
    /\ UNCHANGED <<domVars, faultVars, widgetVars, focus, trapVars, frVars, items, orientation, activationMode,
                   hasOnSelectionChange, internalSelectedId, focusedId, tabFocus, reported,
                   arrowRightRun>>

\* Mutant of EffectiveFocusedId: the focused tab is always the selected tab.
EffectiveFocusedIdSelected == SelectedId

\* effectiveFocusedId = activationMode === 'automatic' ? selectedId : (focusedId || selectedId)
EffectiveFocusedId ==
    IF activationMode = "automatic" THEN SelectedId
    ELSE IF focusedId # 0 THEN focusedId ELSE SelectedId

\* The tabIndex the tab of the item with the id is rendered with.
TabIndex(id) ==
    IF activationMode = "manual"
    THEN (IF id = EffectiveFocusedId THEN 0 ELSE -1)
    ELSE (IF id = SelectedId THEN 0 ELSE -1)

\* const tabIndex = activationMode === 'manual' ? (isFocused ? 0 : -1) : (isSelected ? 0 : -1)
\* The id of the tab rendered with tabIndex 0.
TabStopId ==
    IF activationMode = "manual"
    THEN (IF focusedId # 0 THEN focusedId ELSE SelectedId)
    ELSE SelectedId

\* The Tab key brings focus into the tab list: it lands on the tab with tabIndex 0,
\* if there is one and it is not disabled; onFocus marks it as the focused tab.
TabsFocusIn ==
    /\ tabFocus = 0
    /\ TabStopId \in 1..Len(items)
    /\ ~ItemDisabled(items, TabStopId - 1)
    /\ tabFocus' = TabStopId
    /\ focusedId' = TabStopId
    /\ lastKey' = NoKey
    /\ arrowRightRun' = 0
    /\ lastOp' = "TabsFocusIn"
    /\ UNCHANGED <<domVars, faultVars, widgetVars, focus, trapVars, frVars, items, orientation,
                   activationMode, hasOnSelectionChange, controlledSelectedId,
                   internalSelectedId, reported>>

(***************************************************************************)
(* Tabs.handleKeyDown run one statement group at a time, so that the       *)
(* skipping loop's iterations are visible as steps.                        *)
(***************************************************************************)

\* Mutant of WhileCondition: the loop does not stop on returning to currentIndex.
WhileConditionNoStop(newIndex, currentIndex, its) == ItemDisabled(its, newIndex)

\* while (items[newIndex]?.disabled && newIndex !== currentIndex)
WhileCondition(newIndex, currentIndex, its) ==
    ItemDisabled(its, newIndex) /\ newIndex # currentIndex

\* The loop body: one step in the key's direction, modulo items.length.
LoopStep(key, newIndex, n) ==
    IF SkipForward(key) THEN (newIndex + 1) % n ELSE (newIndex - 1 + n) % n

\* A keydown reaches handleKeyDown(event, currentIndex): on the tab holding DOM
\* focus, or on a disabled tab by a scripted event (a disabled button never holds
\* focus).  Runs up to the loop; a key that never enters the loop is handled whole.
KeyDownBegin(key, currentIndex) ==
    /\ keyPc = "idle"
    /\ currentIndex \in 0..(Len(items) - 1)
    /\ tabFocus = IdOf(currentIndex) \/ ItemDisabled(items, currentIndex)
    /\ keyEvent' = key
    /\ keyCurrentIndex' = currentIndex
    /\ keyIterations' = 0
    /\ IF activationMode = "manual" /\ key \in {"Enter", " "}
       THEN LET st == IF ~ItemDisabled(items, currentIndex)
                      THEN HandleSelect(IdOf(currentIndex), TabsState)
                      ELSE TabsState
            IN  /\ internalSelectedId' = st.internalSelectedId
                /\ reported' = st.reported
                /\ focusedId' = st.focusedId
                /\ keyNewIndex' = currentIndex
                /\ keyPc' = "idle"
       ELSE IF IsNavigationKey(key) \/ IsArrowKey(key)
       THEN /\ keyNewIndex' = SwitchIndex(key, currentIndex, Len(items),
                                          orientation = "horizontal")
            /\ keyPc' = "loop"
            /\ UNCHANGED <<internalSelectedId, reported, focusedId>>
       ELSE IF key \in {"Enter", " "} /\ ~ItemDisabled(items, currentIndex)
       THEN \* not prevented: the button's native activation raises click
            LET st == HandleSelect(IdOf(currentIndex), TabsState)
            IN  /\ internalSelectedId' = st.internalSelectedId
                /\ reported' = st.reported
                /\ focusedId' = st.focusedId
                /\ keyNewIndex' = currentIndex
                /\ keyPc' = "idle"
       ELSE /\ keyNewIndex' = currentIndex
            /\ keyPc' = "idle"
            /\ UNCHANGED <<internalSelectedId, reported, focusedId>>
    /\ lastOp' = "KeyDownBegin"
    /\ UNCHANGED <<domVars, faultVars, surfaceVars, tableVars, liveVars, focus, trapVars, frVars, items, orientation, activationMode,
                   hasOnSelectionChange, controlledSelectedId, tabFocus, lastKey,
                   arrowRightRun>>

\* One execution of the loop body.
KeyDownLoopBody ==
    /\ keyPc = "loop"
    /\ WhileCondition(keyNewIndex, keyCurrentIndex, items)
    /\ keyNewIndex' = LoopStep(keyEvent, keyNewIndex, Len(items))
    /\ keyIterations' = keyIterations + 1
    /\ lastOp' = "KeyDownLoopBody"
    /\ UNCHANGED <<domVars, faultVars, surfaceVars, tableVars, liveVars, focus, trapVars, frVars, tabsVars, keyPc, keyEvent,
                   keyCurrentIndex>>

\* The loop is left: select and focus the tab at newIndex unless it is disabled.
KeyDownApply ==
    /\ keyPc = "loop"
    /\ ~WhileCondition(keyNewIndex, keyCurrentIndex, items)
    /\ IF NewTabSelectable(items, keyNewIndex)
       THEN LET st == IF ActivatesOnMove(activationMode)
                      THEN HandleSelect(IdOf(keyNewIndex), TabsState)
                      ELSE TabsState
            IN  /\ internalSelectedId' = st.internalSelectedId
                /\ reported' = st.reported
                /\ focusedId' = IdOf(keyNewIndex)
                /\ tabFocus' = IdOf(keyNewIndex)
       ELSE UNCHANGED <<internalSelectedId, reported, focusedId, tabFocus>>
    /\ keyPc' = "idle"
    /\ lastOp' = "KeyDownApply"
    /\ UNCHANGED <<domVars, faultVars, surfaceVars, tableVars, liveVars, focus, trapVars, frVars, items, orientation, activationMode,
                   hasOnSelectionChange, controlledSelectedId, lastKey, arrowRightRun, keyEvent,
                   keyCurrentIndex, keyNewIndex, keyIterations>>

(***************************************************************************)
(* DataTable: row navigation and row selection                             *)
(* Rows are identified by their index; -1 stands for null / no row.        *)
(***************************************************************************)

\* tableLastKey when the latest step was not a keydown on a row.
NoRowKey == [key |-> "", from |-> -1]

\* tableReported when the owner has nothing left to apply.
NothingReported == [pending |-> FALSE, rows |-> {}]

TableKeys == {"ArrowDown", "ArrowUp", "Home", "End", "PageUp", "PageDown", " ", "Enter"}

Min(a, b) == IF a <= b THEN a ELSE b
Max(a, b) == IF a >= b THEN a ELSE b

\* Mutant of TableHandlesKey: the arrow keys count as navigation keys.
TableHandlesKeyWithArrows(key) == IsNavigationKey(key) \/ IsArrowKey(key)

\* if (isNavigationKey(event.key))
TableHandlesKey(key) == IsNavigationKey(key)

\* The switch on event.key inside the navigation branch.
TableSwitchIndex(key, index, n) ==
    CASE key = "ArrowDown" -> Min(index + 1, n - 1)
      [] key = "ArrowUp" -> Max(index - 1, 0)
      [] key = "Home" -> 0
      [] key = "End" -> n - 1
      [] OTHER -> index

\* handleSelectRow(rowId): what is passed to onSelectionChange, if anything.
HandleSelectRow(rowId) ==
    IF ~tableHasOnSelectionChange THEN tableReported
    ELSE IF rowId \in tableSelectedRows
    THEN [pending |-> TRUE, rows |-> tableSelectedRows \ {rowId}]
    ELSE [pending |-> TRUE, rows |-> tableSelectedRows \cup {rowId}]

\* handleKeyDown(event, rowId, index) on the row holding DOM focus.
TableKeyDown(key) ==
    /\ tableFocus # -1
    /\ IF TableHandlesKey(key)
       THEN LET newIndex == TableSwitchIndex(key, tableFocus, tableRows)
            IN  /\ tableFocusedRow' = newIndex
                /\ tableFocus' = newIndex
                /\ UNCHANGED tableReported
       ELSE IF key = " " /\ tableSelectable
       THEN /\ tableReported' = HandleSelectRow(tableFocus)
            /\ UNCHANGED <<tableFocusedRow, tableFocus>>
       ELSE UNCHANGED <<tableFocusedRow, tableFocus, tableReported>>
    /\ tableLastKey' = [key |-> key, from |-> tableFocus]
    /\ lastOp' = "TableKey"
    /\ UNCHANGED <<domVars, faultVars, surfaceVars, keyVars, liveVars, focus, trapVars, frVars, tabsVars, tableRows,
                   tableSelectable, tableHasOnSelectionChange, tableSelectedRows>>

\* Focus reaches the row at the index by the Tab key or a pointer click (every row
\* has tabIndex 0); a click also runs onClick, which toggles the row if selectable.
TableFocusRow(index, byClick) ==
    /\ index \in 0..(tableRows - 1)
    /\ tableFocus' = index
    /\ tableReported' = IF byClick /\ tableSelectable
                        THEN HandleSelectRow(index) ELSE tableReported
    /\ tableLastKey' = NoRowKey
    /\ lastOp' = "TableFocusRow"
    /\ UNCHANGED <<domVars, faultVars, surfaceVars, keyVars, liveVars, focus, trapVars, frVars, tabsVars, tableRows,
                   tableSelectable, tableHasOnSelectionChange, tableSelectedRows,
                   tableFocusedRow>>

\* The owner applies the selection it was told about.
TableOwnerApplies ==
    /\ tableReported.pending
    /\ tableSelectedRows' = tableReported.rows
    /\ tableReported' = NothingReported
    /\ tableLastKey' = NoRowKey
    /\ lastOp' = "TableOwnerApplies"
    /\ UNCHANGED <<domVars, faultVars, surfaceVars, keyVars, liveVars, focus, trapVars, frVars, tabsVars, tableRows,
                   tableSelectable, tableHasOnSelectionChange, tableFocus, tableFocusedRow>>

(***************************************************************************)
(* useAriaLive                                                             *)
(* A message of "" stands for undefined or the empty string: both are      *)
(* falsy in `if (message)`.                                                *)
(***************************************************************************)

LiveLevels == {"polite", "assertive"}

LiveTexts == {"Saved", "Deleted"}

\* The arguments an owner may call useAriaLive with.  Owners are told apart by
\* nothing else, so the mounted owners form a bag of these.
LiveOwnerProps ==
    [message : LiveTexts \cup {""}, priority : LiveLevels, clearOnUnmount : BOOLEAN]

NoLiveStep == [op |-> "none", level |-> "polite", text |-> "",
               repeat |-> FALSE, changedBetween |-> FALSE]

\* textContent of what document.getElementById(`aria-live-${level}`) returns: the
\* first element with that id; "" when there is none.
LiveContent(regions, level) ==
    IF regions[level] = <<>> THEN "" ELSE regions[level][1]

\* Mutant of LiveRegionMissing: the lookup never finds the element.
LiveRegionMissingAlways(regions, level) == TRUE

\* if (!liveRegion), after getElementById
LiveRegionMissing(regions, level) == regions[level] = <<>>

\* liveRegion.textContent = text, on the element the lookup returns.
LiveWrite(regions, level, text) ==
    [regions EXCEPT ![level] = [@ EXCEPT ![1] = text]]

\* Mutant of LiveCleanup: the cleanup clears whatever clearOnUnmount says.
LiveCleanupAlwaysClears(regions, o) ==
    LiveWrite(regions, o.priority, "")

\* The effect's cleanup, closed over the owner's clearOnUnmount; liveRegionRef.current
\* is the element the effect's latest run found or created.
LiveCleanup(regions, o) ==
    IF o.clearOnUnmount /\ regions[o.priority] # <<>>
    THEN LiveWrite(regions, o.priority, "")
    ELSE regions

\* Mutant of LiveEffect: the text is appended to what the surface holds.
LiveEffectKeepsOld(regions, message, priority) ==
    LET created == IF LiveRegionMissing(regions, priority)
                   THEN [regions EXCEPT ![priority] = Append(@, "")]
                   ELSE regions
    IN  IF message # "" /\ LiveContent(created, priority) = ""
        THEN LiveWrite(created, priority, message)
        ELSE created

\* The effect body: create or get the live region, then write the message if any.
LiveEffect(regions, message, priority) ==
    LET created == IF LiveRegionMissing(regions, priority)
                   THEN [regions EXCEPT ![priority] = Append(@, "")]
                   ELSE regions
    IN  IF message # "" THEN LiveWrite(created, priority, message) ELSE created

\* History of a step that took the surfaces from liveRegions through mid (after
\* the cleanup, if one ran) to the final ones, by an owner's call with the message
\* at the priority.  op is "announce" when a non-empty message was written.
LiveHistory(op, message, priority, mid, final) ==
    LET differs(level) == \/ LiveContent(mid, level) # LiveContent(liveRegions, level)
                          \/ LiveContent(final, level) # LiveContent(mid, level)
        announces == op # "unmount" /\ message # ""
    IN  /\ liveAnnounced' = IF announces
                            THEN [liveAnnounced EXCEPT ![priority] = message]
                            ELSE liveAnnounced
        /\ liveChanged' = [level \in LiveLevels |->
                             IF announces /\ level = priority THEN FALSE
                             ELSE liveChanged[level] \/ differs(level)]
        /\ liveLast' = [op |-> IF announces THEN "announce" ELSE op,
                        level |-> priority,
                        text |-> message,
                        repeat |-> announces /\ liveAnnounced[priority] = message,
                        changedBetween |->
                            announces /\ (\/ liveChanged[priority]
                                          \/ LiveContent(mid, priority)
                                               # LiveContent(liveRegions, priority))]

\* A component calling useAriaLive(message, priority, clearOnUnmount) mounts: the
\* effect runs.
LiveMount(message, priority, clearOnUnmount) ==
    /\ BagCardinality(liveOwners) < MaxOwners
    /\ LET final == LiveEffect(liveRegions, message, priority)
       IN  /\ liveRegions' = final
           /\ LiveHistory("mount", message, priority, liveRegions, final)
    /\ liveOwners' = liveOwners (+) SetToBag({[message |-> message, priority |-> priority,
                                               clearOnUnmount |-> clearOnUnmount]})
    /\ lastOp' = "LiveMount"
    /\ UNCHANGED <<domVars, faultVars, surfaceVars, keyVars, tableVars, focus, trapVars, frVars, tabsVars>>

\* The mounted component o renders again with other arguments: a dependency
\* changed, so the previous run's cleanup runs, then the effect.
LiveRender(o, message, priority, clearOnUnmount) ==
    /\ BagIn(o, liveOwners)
    /\ <<message, priority, clearOnUnmount>> # <<o.message, o.priority, o.clearOnUnmount>>
    /\ LET mid == LiveCleanup(liveRegions, o)
           final == LiveEffect(mid, message, priority)
       IN  /\ liveRegions' = final
           /\ LiveHistory("render", message, priority, mid, final)
    /\ liveOwners' = (liveOwners (-) SetToBag({o}))
                       (+) SetToBag({[message |-> message, priority |-> priority,
                                      clearOnUnmount |-> clearOnUnmount]})
    /\ lastOp' = "LiveRender"
    /\ UNCHANGED <<domVars, faultVars, surfaceVars, keyVars, tableVars, focus, trapVars, frVars, tabsVars>>

\* The mounted component o unmounts: the cleanup runs.
LiveUnmount(o) ==
    /\ BagIn(o, liveOwners)
    /\ LET final == LiveCleanup(liveRegions, o)
       IN  /\ liveRegions' = final
           /\ LiveHistory("unmount", o.message, o.priority, final, final)
    /\ liveOwners' = liveOwners (-) SetToBag({o})
    /\ lastOp' = "LiveUnmount"
    /\ UNCHANGED <<domVars, faultVars, surfaceVars, keyVars, tableVars, focus, trapVars, frVars, tabsVars>>

(***************************************************************************)
(* Toast and ToastProvider                                                 *)
(* Toast ids are 1, 2, ... in the order of the addToast calls; time is     *)
(* counted in steps of the shortest positive duration.                     *)
(***************************************************************************)

ToastIds == 1..MaxToasts

\* The message every toast of the model shows.
ToastMessage == "Saved"

\* The toasts a page asks for: the defaults (dismissible, auto-dismiss, pause on
\* hover) with each of the props set otherwise once.
ToastKinds ==
    { [type |-> "info",    dismissible |-> TRUE,  duration |-> 2, pauseOnHover |-> TRUE],
      [type |-> "success", dismissible |-> TRUE,  duration |-> 0, pauseOnHover |-> TRUE],
      [type |-> "warning", dismissible |-> FALSE, duration |-> 2, pauseOnHover |-> TRUE],
      [type |-> "error",   dismissible |-> TRUE,  duration |-> 1, pauseOnHover |-> FALSE] }

NoToastStep == [op |-> "none", id |-> 0, type |-> "info", priority |-> "polite",
                duration |-> 0, paused |-> FALSE, hovered |-> FALSE,
                called |-> {}, mounted |-> {}]

\* type === 'error' ? 'assertive' : 'polite', the priority given to useAriaLive and
\* the value of the aria-live attribute.
ToastLivePriority(type) == IF type = "error" THEN "assertive" ELSE "polite"

MountedToasts == {toastList[k].id : k \in 1..Len(toastList)}

ToastOf(id) == toastList[CHOOSE k \in 1..Len(toastList) : toastList[k].id = id]

\* The auto-dismiss effect body: the time on the timeout it arms, -1 when it
\* returns early.
AutoDismissEffect(duration, isPaused) ==
    IF duration = 0 \/ isPaused THEN -1 ELSE duration

\* The cleanups of useAriaLive of the unmounting toasts (clearOnUnmount defaults
\* to true), in the order of the list.
RECURSIVE ToastLiveCleanups(_, _, _)
ToastLiveCleanups(regions, k, removed) ==
    IF k > Len(toastList) THEN regions
    ELSE ToastLiveCleanups(
             IF toastList[k].id \in removed
             THEN LiveCleanup(regions, [message |-> ToastMessage,
                                        priority |-> ToastLivePriority(toastList[k].type),
                                        clearOnUnmount |-> TRUE])
             ELSE regions,
             k + 1, removed)

\* What no Toast step changes.
toastFrame == <<domVars, faultVars, focus, trapVars, frVars, tabsVars, keyVars, tableVars,
                liveOwners, liveAnnounced, liveChanged, liveLast,
                modalVars, accordionVars, portalOpen>>

\* React commits the queued state updates: removeToast(id) for the ids given, and
\* the latest setIsPaused of every toast.  A removed Toast unmounts (its cleanups
\* clear the timeout and the live region); a Toast whose isPaused changed runs the
\* auto-dismiss effect again, cleanup first.
ToastCommitWith(remove) ==
    LET removed == remove \cap MountedToasts
        rerun(id) == id \in MountedToasts \ removed /\ toastWantPaused[id] # toastPaused[id]
    IN  /\ toastList' = SelectSeq(toastList, LAMBDA t : t.id \notin removed)
        /\ toastPendingRemove' = {}
        /\ toastPaused' = [id \in ToastIds |->
                             IF id \in removed THEN FALSE ELSE toastWantPaused[id]]
        /\ toastWantPaused' = toastPaused'
        /\ toastTimer' = [id \in ToastIds |->
                            IF id \in removed THEN -1
                            ELSE IF rerun(id)
                                 THEN AutoDismissEffect(ToastOf(id).duration, toastWantPaused[id])
                                 ELSE toastTimer[id]]
        /\ toastHover' = IF toastHover \in removed THEN 0 ELSE toastHover
        /\ liveRegions' = ToastLiveCleanups(liveRegions, 1, removed)

\* addToast(toast), and the commit that mounts the new Toast: useAriaLive announces
\* the message, the auto-dismiss effect arms its timeout, and the Escape listener
\* is added if the toast is dismissible.
AddToast(kind) ==
    /\ toastAdded < MaxToasts
    /\ LET id == toastAdded + 1
       IN  /\ toastAdded' = id
           /\ toastList' = Append(toastList,
                                  [id |-> id, type |-> kind.type,
                                   dismissible |-> kind.dismissible,
                                   duration |-> kind.duration,
                                   pauseOnHover |-> kind.pauseOnHover])
           /\ toastTimer' = [toastTimer EXCEPT ![id] = AutoDismissEffect(kind.duration, FALSE)]
           /\ toastLast' = [NoToastStep EXCEPT !.op = "AddToast", !.id = id,
                                               !.type = kind.type,
                                               !.priority = ToastLivePriority(kind.type)]
    /\ liveRegions' = LiveEffect(liveRegions, ToastMessage, ToastLivePriority(kind.type))
    /\ lastOp' = "AddToast"
    /\ UNCHANGED <<toastFrame, toastPendingRemove, toastPaused, toastWantPaused, toastHover>>

\* The pointer enters the toast: handleMouseEnter queues setIsPaused(true).
ToastMouseEnter(id) ==
    /\ id \in MountedToasts
    /\ toastHover = 0
    /\ toastHover' = id
    /\ toastWantPaused' = IF ToastOf(id).pauseOnHover
                          THEN [toastWantPaused EXCEPT ![id] = TRUE]
                          ELSE toastWantPaused
    /\ toastLast' = [NoToastStep EXCEPT !.op = "MouseEnter", !.id = id]
    /\ lastOp' = "ToastMouseEnter"
    /\ UNCHANGED <<toastFrame, liveRegions, toastList, toastPendingRemove, toastPaused,
                   toastTimer, toastAdded>>

\* The pointer leaves the toast: handleMouseLeave queues setIsPaused(false).
ToastMouseLeave ==
    /\ toastHover # 0
    /\ toastHover' = 0
    /\ toastWantPaused' = IF ToastOf(toastHover).pauseOnHover
                          THEN [toastWantPaused EXCEPT ![toastHover] = FALSE]
                          ELSE toastWantPaused
    /\ toastLast' = [NoToastStep EXCEPT !.op = "MouseLeave", !.id = toastHover]
    /\ lastOp' = "ToastMouseLeave"
    /\ UNCHANGED <<toastFrame, liveRegions, toastList, toastPendingRemove, toastPaused,
                   toastTimer, toastAdded>>

\* Some state update is queued and not yet committed.
ToastUpdatePending ==
    \/ toastPendingRemove \cap MountedToasts # {}
    \/ \E id \in MountedToasts : toastWantPaused[id] # toastPaused[id]

\* React renders and commits what the pointer and timer callbacks queued, in a task
\* of its own after the callback's.
ToastCommit ==
    /\ ToastUpdatePending
    /\ ToastCommitWith(toastPendingRemove)
    /\ toastLast' = [NoToastStep EXCEPT !.op = "Commit"]
    /\ lastOp' = "ToastCommit"
    /\ UNCHANGED <<toastFrame, toastAdded>>

\* One unit of time passes; a timeout that is due runs, and a queued update is
\* committed, before more time passes.
ToastTick ==
    /\ \E id \in ToastIds : toastTimer[id] > 0
    /\ \A id \in ToastIds : toastTimer[id] # 0
    /\ ~ToastUpdatePending
    /\ toastTimer' = [id \in ToastIds |->
                        IF toastTimer[id] > 0 THEN toastTimer[id] - 1 ELSE toastTimer[id]]
    /\ toastLast' = [NoToastStep EXCEPT !.op = "Tick"]
    /\ lastOp' = "ToastTick"
    /\ UNCHANGED <<toastFrame, liveRegions, toastList, toastPendingRemove, toastPaused,
                   toastWantPaused, toastHover, toastAdded>>

\* The timeout of the toast runs: onDismiss(id), which is the provider's removeToast.
ToastTimerFires(id) ==
    /\ toastTimer[id] = 0
    /\ toastTimer' = [toastTimer EXCEPT ![id] = -1]
    /\ toastPendingRemove' = toastPendingRemove \cup {id}
    /\ toastLast' = [NoToastStep EXCEPT !.op = "TimerFires", !.id = id,
                                        !.duration = ToastOf(id).duration,
                                        !.paused = toastPaused[id],
                                        !.hovered = (toastHover = id /\ ToastOf(id).pauseOnHover)]
    /\ lastOp' = "ToastTimerFires"
    /\ UNCHANGED <<toastFrame, liveRegions, toastList, toastPaused, toastWantPaused,
                   toastHover, toastAdded>>

\* An Escape keydown reaches the document: the listener of every mounted toast that
\* added one (if (!dismissible) return) calls onDismiss(id); the updates of a key
\* event are committed before the next event.
ToastEscape ==
    /\ MountedToasts # {}
    /\ LET called == {id \in MountedToasts : ToastOf(id).dismissible}
       IN  /\ ToastCommitWith(toastPendingRemove \cup called)
           /\ toastLast' = [NoToastStep EXCEPT !.op = "Escape", !.called = called,
                                               !.mounted = MountedToasts]
    /\ lastOp' = "ToastEscape"
    /\ UNCHANGED <<toastFrame, toastAdded>>

\* A click on the toast's dismiss button, rendered only if the toast is dismissible.
ToastDismissClick(id) ==
    /\ id \in MountedToasts
    /\ ToastOf(id).dismissible
    /\ ToastCommitWith(toastPendingRemove \cup {id})
    /\ toastLast' = [NoToastStep EXCEPT !.op = "DismissClick", !.id = id]
    /\ lastOp' = "ToastDismissClick"
    /\ UNCHANGED <<toastFrame, toastAdded>>

(***************************************************************************)
(* Modal on the native dialog element                                      *)
(***************************************************************************)

NoModalStep == [op |-> "none", onCloseCalled |-> FALSE, closeOnEscape |-> FALSE]

\* Mutant of HandleCancel: event.preventDefault() is missing.
HandleCancelNoPrevent(closeOnEscape) ==
    [prevented |-> FALSE, onClose |-> closeOnEscape]

\* handleCancel: the default (closing the dialog) is always prevented; onClose is
\* called if closeOnEscape is set.
HandleCancel(closeOnEscape) ==
    [prevented |-> TRUE, onClose |-> closeOnEscape]

\* handleBackdropClick for a click whose target is the dialog element itself:
\* whether onClose is called.
HandleBackdropClick(closeOnBackdropClick) == closeOnBackdropClick

\* The cleanup of the open/close effect: if (dialog.open) dialog.close().
DialogCleanup(open) == FALSE

\* The open/close effect body on a closed dialog: showModal() or close().
DialogEffect(isOpen, open) == isOpen

CountClose(called) ==
    IF called /\ modalCloseCalls < MaxCloseCalls THEN modalCloseCalls + 1 ELSE modalCloseCalls

\* What no Modal step changes.
modalFrame == <<domVars, faultVars, focus, trapVars, frVars, tabsVars, keyVars, tableVars,
                liveVars, toastVars, accordionVars, portalOpen>>

\* Escape is pressed while the dialog is open: the host raises cancel on the dialog
\* and closes it afterwards unless a handler prevented the default.
ModalCancel ==
    /\ dialogOpen
    /\ LET r == HandleCancel(modalCloseOnEscape)
       IN  /\ dialogOpen' = r.prevented
           /\ modalCloseCalls' = CountClose(r.onClose)
           /\ modalLast' = [op |-> "Cancel", onCloseCalled |-> r.onClose,
                            closeOnEscape |-> modalCloseOnEscape]
    /\ lastOp' = "ModalCancel"
    /\ UNCHANGED <<modalFrame, modalMounted, modalIsOpen, modalCloseOnEscape,
                   modalCloseOnBackdropClick>>

\* A click on the backdrop of the open dialog.
ModalBackdropClick ==
    /\ dialogOpen
    /\ LET called == HandleBackdropClick(modalCloseOnBackdropClick)
       IN  /\ modalCloseCalls' = CountClose(called)
           /\ modalLast' = [op |-> "BackdropClick", onCloseCalled |-> called,
                            closeOnEscape |-> modalCloseOnEscape]
    /\ lastOp' = "ModalBackdropClick"
    /\ UNCHANGED <<modalFrame, modalMounted, modalIsOpen, modalCloseOnEscape,
                   modalCloseOnBackdropClick, dialogOpen>>

\* A click on the close button in the header of the open dialog: onClose.
ModalCloseClick ==
    /\ dialogOpen
    /\ modalCloseCalls' = CountClose(TRUE)
    /\ modalLast' = [op |-> "CloseClick", onCloseCalled |-> TRUE,
                     closeOnEscape |-> modalCloseOnEscape]
    /\ lastOp' = "ModalCloseClick"
    /\ UNCHANGED <<modalFrame, modalMounted, modalIsOpen, modalCloseOnEscape,
                   modalCloseOnBackdropClick, dialogOpen>>

\* The Modal mounts: the dialog element is created closed and the effect runs.
ModalMount(isOpen, closeOnEscape, closeOnBackdropClick) ==
    /\ ~modalMounted
    /\ modalMounted' = TRUE
    /\ modalIsOpen' = isOpen
    /\ modalCloseOnEscape' = closeOnEscape
    /\ modalCloseOnBackdropClick' = closeOnBackdropClick
    /\ dialogOpen' = DialogEffect(isOpen, FALSE)
    /\ modalLast' = [op |-> "Mount", onCloseCalled |-> FALSE,
                     closeOnEscape |-> closeOnEscape]
    /\ lastOp' = "ModalMount"
    /\ UNCHANGED <<modalFrame, modalCloseCalls>>

\* The Modal unmounts: the effect's cleanup closes the dialog if it is open.
ModalUnmount ==
    /\ modalMounted
    /\ modalMounted' = FALSE
    /\ dialogOpen' = DialogCleanup(dialogOpen)
    /\ modalLast' = [op |-> "Unmount", onCloseCalled |-> FALSE,
                     closeOnEscape |-> modalCloseOnEscape]
    /\ lastOp' = "ModalUnmount"
    /\ UNCHANGED <<modalFrame, modalIsOpen, modalCloseOnEscape, modalCloseOnBackdropClick,
                   modalCloseCalls>>

\* The owner renders the Modal with other props.  isOpen is the open/close effect's
\* only dependency: when it changed, the cleanup runs, then the effect.
ModalRender(isOpen, closeOnEscape, closeOnBackdropClick) ==
    /\ modalMounted
    /\ <<isOpen, closeOnEscape, closeOnBackdropClick>>
         # <<modalIsOpen, modalCloseOnEscape, modalCloseOnBackdropClick>>
    /\ modalIsOpen' = isOpen
    /\ modalCloseOnEscape' = closeOnEscape
    /\ modalCloseOnBackdropClick' = closeOnBackdropClick
    /\ dialogOpen' = IF isOpen # modalIsOpen
                     THEN DialogEffect(isOpen, DialogCleanup(dialogOpen))
                     ELSE dialogOpen
    /\ modalLast' = [op |-> "Render", onCloseCalled |-> FALSE,
                     closeOnEscape |-> closeOnEscape]
    /\ lastOp' = "ModalRender"
    /\ UNCHANGED <<modalFrame, modalMounted, modalCloseCalls>>

(***************************************************************************)
(* Modal rendered through a portal, using useFocusTrap and useFocusReturn  *)
(* The container of the document is the modal's dialog div: it and its     *)
(* descendants are in the document only while isOpen is true.              *)
(***************************************************************************)

InsideModal(e) == e.at \in {"child", "container"}

\* element.focus() while the modal's subtree may be out of the document: a call
\* on a detached element does nothing.
PortalFocusCall(target, cur, attached) ==
    IF InsideModal(target) /\ ~attached THEN cur ELSE FocusCall(target, cur)

\* What no step of the portal Modal changes.
portalFrame == <<domVars, tabsVars, keyVars, tableVars, liveVars, toastVars, modalVars,
                 accordionVars, queryResult, defaultPrevented, warned>>

\* The effects of one commit, in the order of the hook calls: useFocusTrap(isOpen,
\* modalRef), then useFocusReturn(isOpen, returnFocusTo), each run if one of its
\* dependencies changed.  cur is document.activeElement after the cleanups.
PortalEffects(isOpen, ret, cur, trapRuns) ==
    LET t == IF trapRuns
             THEN TrapEffect(isOpen, isOpen, cur, previousActiveElement)
             ELSE [listening |-> trapListening, prev |-> previousActiveElement,
                   focus |-> cur, raised |-> FALSE]
        f == FREffect(isOpen, ret, t.focus, savedElementRef)
    IN  /\ trapListening' = t.listening
        /\ previousActiveElement' = t.prev
        /\ raised' = t.raised
        /\ frCleanup' = f.cleanup
        /\ savedElementRef' = f.saved
        /\ focus' = t.focus

\* The Modal mounts with the given isOpen and returnFocusTo.
PortalMount(isOpen, ret) ==
    /\ ~trapMounted
    /\ ~frMounted
    /\ trapMounted' = TRUE
    /\ frMounted' = TRUE
    /\ portalOpen' = isOpen
    /\ trapEnabled' = isOpen
    /\ trapHasContainer' = isOpen
    /\ returnOnUnmount' = isOpen
    /\ returnElement' = ret
    /\ PortalEffects(isOpen, ret, focus, TRUE)
    /\ trapOrigin' = IF isOpen THEN focus ELSE NoElement
    /\ frOrigin' = IF isOpen THEN focus ELSE NoElement
    /\ frFirstSaved' = IF isOpen THEN savedElementRef' ELSE NoElement
    /\ frPhase' = IF isOpen THEN "active" ELSE "idle"
    /\ lastOp' = IF isOpen THEN "PortalOpen" ELSE "Other"
    /\ UNCHANGED portalFrame

\* The owner renders the Modal with another isOpen or returnFocusTo.  On closing,
\* the modal's subtree leaves the document, taking focus with it, before the
\* cleanups run; the cleanups of the effects whose dependencies changed run in the
\* order of the hook calls, then the effects.
PortalRender(isOpen, ret) ==
    /\ trapMounted
    /\ frMounted
    /\ <<isOpen, ret>> # <<portalOpen, returnElement>>
    /\ LET opening == isOpen /\ ~portalOpen
           closing == ~isOpen /\ portalOpen
           detached == IF closing /\ InsideModal(focus) THEN NoElement ELSE focus
           afterTrap == IF isOpen # portalOpen /\ trapListening /\ previousActiveElement # NoElement
                        THEN PortalFocusCall(previousActiveElement, detached, isOpen)
                        ELSE detached
           elementToFocus == FRElementToFocus(frCleanup.returnElement, savedElementRef)
           afterReturn == IF frCleanup.present /\ elementToFocus # NoElement
                          THEN PortalFocusCall(elementToFocus, afterTrap, isOpen)
                          ELSE afterTrap
       IN  /\ PortalEffects(isOpen, ret, afterReturn, isOpen # portalOpen)
           /\ trapOrigin' = IF opening THEN focus ELSE trapOrigin
           /\ frOrigin' = IF opening THEN focus ELSE frOrigin
           /\ frFirstSaved' = IF opening THEN savedElementRef' ELSE frFirstSaved
           /\ frPhase' = IF isOpen THEN "active"
                         ELSE IF closing THEN "deactivated" ELSE frPhase
           /\ lastOp' = IF opening THEN "PortalOpen"
                        ELSE IF closing THEN "PortalClose" ELSE "Other"
    /\ portalOpen' = isOpen
    /\ trapEnabled' = isOpen
    /\ trapHasContainer' = isOpen
    /\ returnOnUnmount' = isOpen
    /\ returnElement' = ret
    /\ UNCHANGED <<portalFrame, trapMounted, frMounted>>

\* Tab or Shift+Tab while the modal is open.
PortalPressTab(shift) == portalOpen /\ PressTab(shift)

\* The user moves focus with the pointer, to an element that is in the document.
PortalUserFocus(e) == (portalOpen \/ ~InsideModal(e)) /\ UserFocus(e)

(***************************************************************************)
(* Accordion on the native details element                                 *)
(***************************************************************************)

AccordionIds == 1..Len(accordionOpen)

\* handleToggle for a toggle event of item i: the open states it leaves.
HandleToggle(open, i, allowMultiple) ==
    IF ~allowMultiple /\ open[i]
    THEN [j \in DOMAIN open |-> IF j = i THEN open[j] ELSE FALSE]
    ELSE open

\* What no Accordion step changes.
accordionFrame == <<domVars, faultVars, focus, trapVars, frVars, tabsVars, keyVars,
                    tableVars, liveVars, toastVars, modalVars, portalOpen,
                    accordionDefaultOpen, accordionAllowMultiple>>

\* The user activates the summary of item i (click, Enter or Space): the details
\* element flips its open state and the host queues a toggle event for it.
AccordionSummaryActivate(i) ==
    /\ i \in AccordionIds
    /\ accordionOpen' = [accordionOpen EXCEPT ![i] = ~@]
    /\ accordionToggleQueue' = accordionToggleQueue \cup {i}
    /\ lastOp' = "AccordionSummaryActivate"
    /\ UNCHANGED accordionFrame

\* The queued toggle event of item i is delivered: handleToggle runs; every details
\* element it closes gets a toggle event queued in turn.
AccordionToggleEvent(i) ==
    /\ i \in accordionToggleQueue
    /\ LET after == HandleToggle(accordionOpen, i, accordionAllowMultiple)
       IN  /\ accordionOpen' = after
           /\ accordionToggleQueue' =
                  (accordionToggleQueue \ {i})
                    \cup {j \in AccordionIds : after[j] # accordionOpen[j]}
    /\ lastOp' = "AccordionToggleEvent"
    /\ UNCHANGED accordionFrame

(***************************************************************************)
(* Initial states and specifications                                       *)
(***************************************************************************)

\* Every document with at most MaxChildren descendants of the given kinds.
DomChoices(kinds) == UNION {[1..n -> kinds] : n \in 0..MaxChildren}

\* The kinds the host can focus.
FocusableKinds == {k \in ElementKinds : HostFocusable(k)}

TrapUnused ==
    /\ trapMounted = FALSE
    /\ trapEnabled = FALSE
    /\ trapHasContainer = FALSE
    /\ trapListening = FALSE
    /\ previousActiveElement = NoElement
    /\ trapOrigin = NoElement
    /\ defaultPrevented = FALSE
    /\ queryResult = [called |-> FALSE, result |-> <<>>]

FRUnused ==
    /\ frMounted = FALSE
    /\ returnOnUnmount = FALSE
    /\ returnElement = NoElement
    /\ savedElementRef = NoElement
    /\ frCleanup = NoCleanup
    /\ frOrigin = NoElement
    /\ frFirstSaved = NoElement
    /\ frPhase = "idle"

TabsUnused ==
    /\ items = <<>>
    /\ orientation = "horizontal"
    /\ activationMode = "automatic"
    /\ hasOnSelectionChange = FALSE
    /\ controlledSelectedId = 0
    /\ internalSelectedId = 0
    /\ focusedId = 0
    /\ tabFocus = 0
    /\ reported = 0
    /\ lastKey = NoKey
    /\ arrowRightRun = 0

KeyUnused ==
    /\ keyPc = "idle"
    /\ keyEvent = ""
    /\ keyCurrentIndex = 0
    /\ keyNewIndex = 0
    /\ keyIterations = 0

TableUnused ==
    /\ tableRows = 0
    /\ tableSelectable = FALSE
    /\ tableHasOnSelectionChange = FALSE
    /\ tableSelectedRows = {}
    /\ tableReported = NothingReported
    /\ tableFocus = -1
    /\ tableFocusedRow = -1
    /\ tableLastKey = NoRowKey

\* No component has called useAriaLive yet: the document holds no live region.
LiveUnused ==
    /\ liveRegions = [level \in LiveLevels |-> <<>>]
    /\ liveOwners = EmptyBag
    /\ liveAnnounced = [level \in LiveLevels |-> ""]
    /\ liveChanged = [level \in LiveLevels |-> FALSE]
    /\ liveLast = NoLiveStep

\* Every focus() call of the page succeeds, and nothing was raised or logged.
NoFaults ==
    /\ brokenFocus = {}
    /\ raised = FALSE
    /\ warned = FALSE

\* A ToastProvider that was not asked for a toast yet.
ToastUnused ==
    /\ toastList = <<>>
    /\ toastPendingRemove = {}
    /\ toastPaused = [id \in ToastIds |-> FALSE]
    /\ toastWantPaused = [id \in ToastIds |-> FALSE]
    /\ toastTimer = [id \in ToastIds |-> -1]
    /\ toastHover = 0
    /\ toastAdded = 0
    /\ toastLast = NoToastStep

ModalUnused ==
    /\ modalMounted = FALSE
    /\ modalIsOpen = FALSE
    /\ modalCloseOnEscape = TRUE
    /\ modalCloseOnBackdropClick = TRUE
    /\ dialogOpen = FALSE
    /\ modalCloseCalls = 0
    /\ modalLast = NoModalStep

AccordionUnused ==
    /\ accordionDefaultOpen = <<>>
    /\ accordionAllowMultiple = FALSE
    /\ accordionOpen = <<>>
    /\ accordionToggleQueue = {}

SurfacesUnused ==
    /\ ToastUnused
    /\ ModalUnused
    /\ AccordionUnused
    /\ portalOpen = FALSE

WidgetsUnused ==
    /\ KeyUnused
    /\ TableUnused
    /\ LiveUnused
    /\ SurfacesUnused

\* A page holding a container that a component may trap focus in.
InitTrap ==
    /\ children \in DomChoices(ElementKinds)
    /\ containerTabindex \in {"none", "0"}
    /\ bodyIsActive \in BOOLEAN
    /\ NoFaults
    /\ focus = NoElement
    /\ TrapUnused
    /\ FRUnused
    /\ TabsUnused
    /\ WidgetsUnused
    /\ lastOp = "Init"

NextTrap ==
    \/ \E enabled \in BOOLEAN, hasContainer \in BOOLEAN : TrapMount(enabled, hasContainer)
    \/ \E enabled \in BOOLEAN, hasContainer \in BOOLEAN : TrapRender(enabled, hasContainer)
    \/ TrapUnmount
    \/ \E shift \in BOOLEAN : PressTab(shift)
    \/ \E e \in Elements \cup {NoElement} : UserFocus(e)

SpecTrap == InitTrap /\ [][NextTrap]_vars

\* The focus registry alone: getFocusableElements called on any container.
NextRegistry == QueryFocusable

SpecRegistry == InitTrap /\ [][NextRegistry]_vars

\* A page on which a component uses useFocusReturn.
InitReturn ==
    /\ children \in DomChoices(FocusableKinds)
    /\ containerTabindex \in {"none", "0"}
    /\ bodyIsActive \in BOOLEAN
    /\ NoFaults
    /\ focus = NoElement
    /\ TrapUnused
    /\ FRUnused
    /\ TabsUnused
    /\ WidgetsUnused
    /\ lastOp = "Init"

NextReturn ==
    \/ \E flag \in BOOLEAN, ret \in ReturnTargets : FRMount(flag, ret)
    \/ \E flag \in BOOLEAN, ret \in ReturnTargets : FRRender(flag, ret)
    \/ FRUnmount
    \/ \E e \in Elements \cup {NoElement} : UserFocus(e)

SpecReturn == InitReturn /\ [][NextReturn]_vars

\* A freshly rendered Tabs: initialSelectedId = defaultSelectedId || items[0]?.id.
\* An uncontrolled Tabs is given any defaultSelectedId; a controlled one is given
\* selectedId and no defaultSelectedId.
InitTabs ==
    /\ children = <<>>
    /\ containerTabindex = "none"
    /\ bodyIsActive = TRUE
    /\ NoFaults
    /\ focus = NoElement
    /\ TrapUnused
    /\ FRUnused
    /\ items \in UNION {[1..n -> [disabled : BOOLEAN]] : n \in 1..MaxTabs}
    /\ orientation \in {"horizontal", "vertical"}
    /\ activationMode \in {"automatic", "manual"}
    /\ hasOnSelectionChange \in BOOLEAN
    /\ controlledSelectedId \in 0..Len(items)
    /\ internalSelectedId \in IF controlledSelectedId = 0 THEN 1..Len(items) ELSE {1}
    /\ focusedId = internalSelectedId
    /\ tabFocus = 0
    /\ reported = 0
    /\ lastKey = NoKey
    /\ arrowRightRun = 0
    /\ WidgetsUnused
    /\ lastOp = "Init"

NextTabs ==
    \/ \E key \in Keys : TabsKeyDown(key)
    \/ \E index \in 0..(MaxTabs - 1) : TabsClick(index)
    \/ TabsOwnerApplies
    \/ TabsFocusIn

SpecTabs == InitTabs /\ [][NextTabs]_vars

\* The same Tabs with handleKeyDown run step by step.  The handler runs to its end
\* before the next event is delivered.
InitTabsKey == InitTabs /\ Len(items) <= MaxKeyItems

NextTabsKey ==
    \/ \E key \in Keys, currentIndex \in 0..(MaxKeyItems - 1) : KeyDownBegin(key, currentIndex)
    \/ KeyDownLoopBody
    \/ KeyDownApply
    \/ \E index \in 0..(MaxKeyItems - 1) : keyPc = "idle" /\ TabsClick(index)
    \/ keyPc = "idle" /\ TabsOwnerApplies
    \/ TabsFocusIn

SpecTabsKey == InitTabsKey /\ [][NextTabsKey]_vars

\* A freshly rendered DataTable with at least one row: focusedRow is null and no
\* row holds focus.
InitTable ==
    /\ children = <<>>
    /\ containerTabindex = "none"
    /\ bodyIsActive = TRUE
    /\ NoFaults
    /\ focus = NoElement
    /\ TrapUnused
    /\ FRUnused
    /\ TabsUnused
    /\ KeyUnused
    /\ LiveUnused
    /\ SurfacesUnused
    /\ tableRows \in 1..MaxRows
    /\ tableSelectable \in BOOLEAN
    /\ tableHasOnSelectionChange \in BOOLEAN
    /\ tableSelectedRows \in SUBSET (0..(tableRows - 1))
    /\ tableReported = NothingReported
    /\ tableFocus = -1
    /\ tableFocusedRow = -1
    /\ tableLastKey = NoRowKey
    /\ lastOp = "Init"

NextTable ==
    \/ \E key \in TableKeys : TableKeyDown(key)
    \/ \E index \in 0..(MaxRows - 1), byClick \in BOOLEAN : TableFocusRow(index, byClick)
    \/ TableOwnerApplies

SpecTable == InitTable /\ [][NextTable]_vars

\* A page on which components use useAriaLive.
InitLive ==
    /\ children = <<>>
    /\ containerTabindex = "none"
    /\ bodyIsActive = TRUE
    /\ NoFaults
    /\ focus = NoElement
    /\ TrapUnused
    /\ FRUnused
    /\ TabsUnused
    /\ WidgetsUnused
    /\ lastOp = "Init"

NextLive ==
    \/ \E message \in LiveTexts \cup {""}, priority \in LiveLevels, clearOnUnmount \in BOOLEAN :
          LiveMount(message, priority, clearOnUnmount)
    \/ \E o \in LiveOwnerProps, message \in LiveTexts \cup {""}, priority \in LiveLevels,
          clearOnUnmount \in BOOLEAN : LiveRender(o, message, priority, clearOnUnmount)
    \/ \E o \in LiveOwnerProps : LiveUnmount(o)

SpecLive == InitLive /\ [][NextLive]_vars

\* The values given as returnElement where objects that are no elements may be
\* passed too.
FaultReturnTargets == ReturnTargets \cup {PlainObject, ThrowingObject}

\* A page on which a component uses useFocusReturn and some focus() calls throw.
InitReturnFaults ==
    /\ children = <<>>
    /\ containerTabindex = "none"
    /\ bodyIsActive \in BOOLEAN
    /\ brokenFocus \in SUBSET {Before, After}
    /\ raised = FALSE
    /\ warned = FALSE
    /\ focus = NoElement
    /\ TrapUnused
    /\ FRUnused
    /\ TabsUnused
    /\ WidgetsUnused
    /\ lastOp = "Init"

NextReturnFaults ==
    \/ \E flag \in BOOLEAN, ret \in FaultReturnTargets : FRMount(flag, ret)
    \/ \E flag \in BOOLEAN, ret \in FaultReturnTargets : FRRender(flag, ret)
    \/ FRUnmount
    \/ \E e \in Elements \cup {NoElement} : UserFocus(e)

SpecReturnFaults == InitReturnFaults /\ [][NextReturnFaults]_vars

\* A page holding a container of plain buttons that a component may trap focus in,
\* where the focus() of at most one element throws.
InitTrapFaults ==
    /\ children \in DomChoices({PlainButton})
    /\ containerTabindex \in {"none", "0"}
    /\ bodyIsActive \in BOOLEAN
    /\ brokenFocus \in {{}} \cup {{e} : e \in Elements}
    /\ raised = FALSE
    /\ warned = FALSE
    /\ focus = NoElement
    /\ TrapUnused
    /\ FRUnused
    /\ TabsUnused
    /\ WidgetsUnused
    /\ lastOp = "Init"

SpecTrapFaults == InitTrapFaults /\ [][NextTrap]_vars

\* A page inside a ToastProvider.
InitToast ==
    /\ children = <<>>
    /\ containerTabindex = "none"
    /\ bodyIsActive = TRUE
    /\ NoFaults
    /\ focus = NoElement
    /\ TrapUnused
    /\ FRUnused
    /\ TabsUnused
    /\ WidgetsUnused
    /\ lastOp = "Init"

NextToast ==
    \/ \E kind \in ToastKinds : AddToast(kind)
    \/ \E id \in ToastIds : ToastMouseEnter(id)
    \/ ToastMouseLeave
    \/ ToastCommit
    \/ ToastTick
    \/ \E id \in ToastIds : ToastTimerFires(id)
    \/ ToastEscape
    \/ \E id \in ToastIds : ToastDismissClick(id)

SpecToast == InitToast /\ [][NextToast]_vars

\* A page on which a portal Modal is about to be rendered.  The modal's first
\* descendant is the close button of its header.
InitPortal ==
    /\ children \in {<<PlainButton>> \o rest : rest \in DomChoices(ElementKinds)}
    /\ Len(children) <= MaxChildren
    /\ containerTabindex = "none"
    /\ bodyIsActive \in BOOLEAN
    /\ NoFaults
    /\ focus = NoElement
    /\ TrapUnused
    /\ FRUnused
    /\ TabsUnused
    /\ WidgetsUnused
    /\ lastOp = "Init"

NextPortal ==
    \/ \E isOpen \in BOOLEAN, ret \in ReturnTargets : PortalMount(isOpen, ret)
    \/ \E isOpen \in BOOLEAN, ret \in ReturnTargets : PortalRender(isOpen, ret)
    \/ \E shift \in BOOLEAN : PortalPressTab(shift)
    \/ \E e \in Elements \cup {NoElement} : PortalUserFocus(e)

SpecPortal == InitPortal /\ [][NextPortal]_vars

\* A page on which a Modal is about to be rendered.
InitModal ==
    /\ children = <<>>
    /\ containerTabindex = "none"
    /\ bodyIsActive = TRUE
    /\ NoFaults
    /\ focus = NoElement
    /\ TrapUnused
    /\ FRUnused
    /\ TabsUnused
    /\ WidgetsUnused
    /\ lastOp = "Init"

NextModal ==
    \/ \E isOpen \in BOOLEAN, closeOnEscape \in BOOLEAN, closeOnBackdropClick \in BOOLEAN :
          ModalMount(isOpen, closeOnEscape, closeOnBackdropClick)
    \/ ModalUnmount
    \/ ModalCancel
    \/ ModalBackdropClick
    \/ ModalCloseClick
    \/ \E isOpen \in BOOLEAN, closeOnEscape \in BOOLEAN, closeOnBackdropClick \in BOOLEAN :
          ModalRender(isOpen, closeOnEscape, closeOnBackdropClick)

SpecModal == InitModal /\ [][NextModal]_vars

\* A freshly rendered Accordion: every details element is rendered with
\* open={defaultOpen}.  A host queues a toggle event for each element created open,
\* or raises toggle only for later changes.
InitAccordion ==
    /\ children = <<>>
    /\ containerTabindex = "none"
    /\ bodyIsActive = TRUE
    /\ NoFaults
    /\ focus = NoElement
    /\ TrapUnused
    /\ FRUnused
    /\ TabsUnused
    /\ KeyUnused
    /\ TableUnused
    /\ LiveUnused
    /\ ToastUnused
    /\ ModalUnused
    /\ portalOpen = FALSE
    /\ accordionDefaultOpen \in UNION {[1..n -> BOOLEAN] : n \in 1..MaxAccordionItems}
    /\ accordionAllowMultiple \in BOOLEAN
    /\ accordionOpen = accordionDefaultOpen
    /\ accordionToggleQueue \in {{}, {i \in AccordionIds : accordionDefaultOpen[i]}}
    /\ lastOp = "Init"

NextAccordion ==
    \/ \E i \in 1..MaxAccordionItems : AccordionSummaryActivate(i)
    \/ \E i \in 1..MaxAccordionItems : AccordionToggleEvent(i)

SpecAccordion == InitAccordion /\ [][NextAccordion]_vars

(***************************************************************************)
(* Claims                                                                  *)
(***************************************************************************)

(***************************************************************************)
(* Eligibility as the data model states it                                 *)
(***************************************************************************)

\* eligible <=> visible /\ ~disabled /\ tabReachable
Eligible(a) == ~a.hidden /\ ~a.disabled /\ TabReachable(a)

RECURSIVE EligibleIds(_, _)
EligibleIds(i, n) ==
    IF i > n THEN <<>>
    ELSE (IF Eligible(children[i]) THEN <<Child(i)>> ELSE <<>>) \o EligibleIds(i + 1, n)

EligibleChildren == EligibleIds(1, Len(children))

IsEligibleChild(e) == e.at = "child" /\ Eligible(children[e.i])

FirstEligible == EligibleChildren[1]
LastEligible == EligibleChildren[Len(EligibleChildren)]

\* C1: while the trap is active and focus is on an eligible descendant of the
\* container, a Tab or Shift+Tab press leaves focus on an eligible descendant.
C1_FocusContainment ==
    [][(lastOp' \in {"Tab", "ShiftTab"} /\ trapListening /\ IsEligibleChild(focus))
         => IsEligibleChild(focus')]_vars

\* C2: activating the trap leaves focus on the first eligible element of the
\* container, or on the container itself when it has no eligible element.
C2_ActivationFocus ==
    lastOp = "TrapActivate" =>
        focus = (IF Len(EligibleChildren) >= 1 THEN FirstEligible ELSE ContainerEl)

\* C3: while the trap is active, Tab on the last eligible element moves focus to the
\* first eligible element and Shift+Tab on the first moves it to the last, the
\* default action being suppressed in both cases.
C3_WrapAtEnds ==
    [][(trapListening /\ Len(EligibleChildren) >= 1)
         => /\ (lastOp' = "Tab" /\ focus = LastEligible)
                  => (focus' = FirstEligible /\ defaultPrevented')
            /\ (lastOp' = "ShiftTab" /\ focus = FirstEligible)
                  => (focus' = LastEligible /\ defaultPrevented')]_vars

\* C9: getFocusableElements(container) is exactly the sequence of eligible
\* descendants (visible, not disabled, Tab-reachable) in document order.
C9_RegistryExact ==
    queryResult.called => queryResult.result = EligibleChildren

\* C4: deactivating focus-return (flag true -> false, or unmount while active) moves
\* focus to the configured return target, else to the element focused just before
\* the latest activation.
C4_DeactivationRestores ==
    [][lastOp' = "FRDeactivate"
         => IF returnElement # NoElement
            THEN focus' = returnElement
            ELSE (frOrigin # NoElement => focus' = frOrigin)]_vars

\* C5: a re-run of the activation step while the controller stays active keeps the
\* captured element and the focus, and the later deactivation (with no return
\* target) focuses the element captured at the first activation.
C5_CaptureOnce ==
    [][/\ lastOp' = "FRRerun" => (savedElementRef' = savedElementRef /\ focus' = focus)
       /\ (lastOp' = "FRDeactivate" /\ returnElement = NoElement)
            => focus' = FocusCall(frFirstSaved, focus)]_vars

\* C6: once deactivated, a further render with the flag false, or the unmount, does
\* not change which element has focus.
C6_SecondDeactivationNoOp ==
    [][(/\ frMounted
        /\ ~returnOnUnmount
        /\ frPhase \in {"deactivated", "deactivatedAgain"}
        /\ lastOp' \in {"FRActivate", "FRRerun", "FRDeactivate", "FRInactive"}
        /\ (~frMounted' \/ ~returnOnUnmount'))
         => focus' = focus]_vars

\* C6 witness: a second deactivation happened while focus was away from the
\* captured element, and focus stayed where it was.
C6_Witness ==
    /\ frPhase = "deactivatedAgain"
    /\ lastOp = "FRInactive"
    /\ savedElementRef = Before
    /\ focus = Child(1)

\* C7 as stated: deactivating or unmounting an active trap releases the key
\* interception and leaves the focused element unchanged.
C7_TrapLeavesFocus ==
    [][lastOp' \in {"TrapDeactivate", "TrapUnmountActive"}
         => (~trapListening' /\ focus' = focus)]_vars

\* C7 amended: deactivating or unmounting an active trap releases the key
\* interception and moves focus back to the element focused just before the
\* activation; if none was, focus stays or goes to the element the ref still holds.
C7_TrapRestoresFocus ==
    [][lastOp' \in {"TrapDeactivate", "TrapUnmountActive"}
         => /\ ~trapListening'
            /\ trapOrigin # NoElement => focus' = trapOrigin
            /\ trapOrigin = NoElement => focus' \in {focus, previousActiveElement}]_vars

\* C7 witness: a render disabled the trap opened from Before, and focus is back there.
C7_Witness ==
    /\ lastOp = "TrapDeactivate"
    /\ trapMounted
    /\ ~trapListening
    /\ trapOrigin = Before
    /\ focus = Before
    /\ Len(GetFocusableElements) >= 1

\* C8: after an active trap is unmounted, focus is on the element that was focused
\* just before the trap was activated.
C8_UnmountRestores ==
    (lastOp = "TrapUnmountActive" /\ trapOrigin # NoElement) => focus = trapOrigin

\* C8 witness: the trap opened from After with a focusable descendant was unmounted.
C8_Witness ==
    /\ lastOp = "TrapUnmountActive"
    /\ ~trapMounted
    /\ trapOrigin = After
    /\ focus = After
    /\ Len(GetFocusableElements) >= 1
    /\ HostFocusable(Attr(GetFirstFocusable))

(***************************************************************************)
(* Roving navigation as the design states it                               *)
(***************************************************************************)

EnabledIndices == {k \in 0..(Len(items) - 1) : ~items[k + 1].disabled}

\* Steps from index i forward (backward) to index j in cyclic order, from 1 to the
\* item count.
StepsAfter(i, j) == ((j - i - 1 + Len(items)) % Len(items)) + 1
StepsBefore(i, j) == ((i - j - 1 + Len(items)) % Len(items)) + 1

NearestEnabledAfter(i) ==
    CHOOSE j \in EnabledIndices : \A k \in EnabledIndices : StepsAfter(i, j) <= StepsAfter(i, k)

NearestEnabledBefore(i) ==
    CHOOSE j \in EnabledIndices : \A k \in EnabledIndices : StepsBefore(i, j) <= StepsBefore(i, k)

ForwardKey == IF orientation = "horizontal" THEN "ArrowRight" ELSE "ArrowDown"
BackwardKey == IF orientation = "horizontal" THEN "ArrowLeft" ELSE "ArrowUp"

\* The index the claim expects the key to land on.
ExpectedIndex(key, i) ==
    CASE key = "Home" -> SetMin(EnabledIndices)
      [] key = "End" -> SetMax(EnabledIndices)
      [] key = ForwardKey -> NearestEnabledAfter(i)
      [] key = BackwardKey -> NearestEnabledBefore(i)

\* C10: pressed on an enabled tab, the orientation's forward arrow lands on the
\* nearest enabled index after it in cyclic order, the backward arrow on the nearest
\* enabled index before it, Home on the lowest and End on the highest enabled index;
\* the tab landed on is never disabled, and in automatic mode it is the one selected.
C10_RovingSkipsAndWraps ==
    (/\ lastOp = "TabsKey"
     /\ lastKey.key \in {"Home", "End", ForwardKey, BackwardKey}
     /\ ~ItemDisabled(items, lastKey.from))
      => /\ tabFocus = IdOf(ExpectedIndex(lastKey.key, lastKey.from))
         /\ ~ItemDisabled(items, tabFocus - 1)
         /\ focusedId = tabFocus
         /\ activationMode = "automatic"
              => (IF hasOnSelectionChange THEN reported ELSE internalSelectedId) = tabFocus

\* C10 witness: five items with index 2 disabled, ArrowRight pressed on index 1
\* landed on index 3.
C10_Witness ==
    /\ lastOp = "TabsKey"
    /\ Len(items) = 5
    /\ EnabledIndices = {0, 1, 3, 4}
    /\ orientation = "horizontal"
    /\ lastKey = [key |-> "ArrowRight", from |-> 1]
    /\ tabFocus = IdOf(3)

\* No item other than the one at index i is enabled.
NoOtherEnabled(i) == EnabledIndices \ {i} = {}

KeyHandlerOps == {"KeyDownBegin", "KeyDownLoopBody", "KeyDownApply"}

Selection == <<SelectedId, internalSelectedId, reported>>

\* C12: in manual activation mode an arrow, Home or End key moves only DOM focus
\* and the focused-tab marker and leaves the selection unchanged; the selection
\* changes only by Enter or Space on the focused tab or by a click (or by the owner
\* applying what it was told), and on Enter or Space it becomes the focused tab,
\* which is not disabled.
C12_ManualActivation ==
    [][activationMode = "manual" =>
        /\ (lastOp' = "TabsKey" /\ lastKey'.key \in {"Home", "End", "ArrowRight", "ArrowLeft",
                                                     "ArrowDown", "ArrowUp"})
             => /\ Selection' = Selection
                /\ focusedId' = tabFocus'
        /\ Selection' # Selection
             => \/ lastOp' \in {"TabsClick", "TabsOwnerApplies"}
                \/ /\ lastOp' = "TabsKey"
                   /\ lastKey'.key \in {"Enter", " "}
                   /\ lastKey'.from = tabFocus - 1
                   /\ ~ItemDisabled(items, lastKey'.from)
                   /\ tabFocus' = tabFocus
                   /\ (IF hasOnSelectionChange THEN reported' ELSE internalSelectedId')
                        = tabFocus]_vars

\* C12 witness: manual mode, an arrow key has moved focus to a tab that is not the
\* selected one.
C12_Witness ==
    /\ activationMode = "manual"
    /\ lastOp = "TabsKey"
    /\ lastKey.key \in {"ArrowRight", "ArrowDown"}
    /\ tabFocus # IdOf(lastKey.from)
    /\ tabFocus # SelectedId
    /\ focusedId = tabFocus

\* The three-tab list of the scenario: general, account, privacy, none disabled,
\* automatic activation, horizontal orientation.
ThreeTabScenario ==
    /\ Len(items) = 3
    /\ EnabledIndices = {0, 1, 2}
    /\ activationMode = "automatic"
    /\ orientation = "horizontal"

\* The owner has applied every selection it was told about; a Tabs without an
\* owner callback keeps its selection itself.
OwnerUpToDate ==
    IF hasOnSelectionChange
    THEN controlledSelectedId # 0 /\ (reported # 0 => controlledSelectedId = reported)
    ELSE controlledSelectedId = 0

\* C13: in the three-tab scenario, starting with selection "general" (id 1) and
\* focus on its tab, after ArrowRight was pressed twice, each time on the focused
\* tab, and the owner applied what it was told, the selection is "privacy" (id 3)
\* and DOM focus is on the "privacy" tab.
C13_TwoArrowRights ==
    (ThreeTabScenario /\ arrowRightRun = 2 /\ OwnerUpToDate)
      => (SelectedId = 3 /\ tabFocus = 3)

\* C13 witness: the scenario as the Default story runs it, with an owner holding
\* the selection, after the second ArrowRight.
C13_Witness ==
    /\ ThreeTabScenario
    /\ hasOnSelectionChange
    /\ OwnerUpToDate
    /\ arrowRightRun = 2
    /\ lastOp = "TabsOwnerApplies"
    /\ SelectedId = 3
    /\ tabFocus = 3

\* C14: DataTable row navigation clamps at the boundary: ArrowDown pressed on row i
\* of n rows moves focus to row min(i + 1, n - 1), ArrowUp to row max(i - 1, 0);
\* neither wraps around.
C14_RowNavigationClamps ==
    (lastOp = "TableKey" /\ tableLastKey.key \in {"ArrowDown", "ArrowUp"})
      => tableFocus = IF tableLastKey.key = "ArrowDown"
                      THEN Min(tableLastKey.from + 1, tableRows - 1)
                      ELSE Max(tableLastKey.from - 1, 0)

LiveOps == {"LiveMount", "LiveRender", "LiveUnmount"}

OtherLevel(level) == IF level = "polite" THEN "assertive" ELSE "polite"

\* C15: for each politeness level, after any sequence of useAriaLive mounts,
\* argument changes and unmounts by any owners, the document holds at most one
\* live-region surface with that level's id, and a surface once created is never
\* removed.
C15_OneSurfacePerLevel ==
    /\ [](\A level \in LiveLevels : Len(liveRegions[level]) <= 1)
    /\ [][\A level \in LiveLevels : Len(liveRegions'[level]) >= Len(liveRegions[level])]_vars

\* C15 witness: every owner has mounted and unmounted again, both levels were used,
\* and each level's one surface is still in the document.
C15_Witness ==
    /\ lastOp = "LiveUnmount"
    /\ liveOwners = EmptyBag
    /\ \A level \in LiveLevels : Len(liveRegions[level]) = 1 /\ liveAnnounced[level] # ""

\* C16: when "Saved" is announced at the polite level and the identical text is
\* announced again at that level with no other announcement in between, the
\* surface's content has changed at least once between the two calls.
C16_RepeatChangesContent ==
    (/\ lastOp \in LiveOps
     /\ liveLast.op = "announce"
     /\ liveLast.level = "polite"
     /\ liveLast.text = "Saved"
     /\ liveLast.repeat)
      => liveLast.changedBetween

\* C17: when an owner unmounts, the surface of its politeness level becomes empty
\* if its clearOnUnmount is true, whatever text it held and whichever owner wrote
\* it; if clearOnUnmount is false the surfaces' content is left unchanged.
C17_UnmountClears ==
    [][lastOp' = "LiveUnmount" =>
         \E o \in BagToSet(liveOwners) :
            /\ liveOwners' = liveOwners (-) SetToBag({o})
            /\ IF o.clearOnUnmount
               THEN LiveContent(liveRegions', o.priority) = ""
               ELSE liveRegions' = liveRegions]_vars

\* C17 witness: an owner with clearOnUnmount has unmounted and emptied a surface
\* whose text was the announcement of another owner, which is still mounted.
C17_Witness ==
    /\ lastOp = "LiveUnmount"
    /\ LiveContent(liveRegions, liveLast.level) = ""
    /\ liveAnnounced[liveLast.level] # ""
    /\ liveLast.text # liveAnnounced[liveLast.level]
    /\ \E o \in BagToSet(liveOwners) :
          o.priority = liveLast.level /\ o.message = liveAnnounced[liveLast.level]

\* An announcement was just made: what the level's surface and history must show.
LastWriteWins ==
    /\ [][(lastOp' \in LiveOps /\ liveLast'.op = "announce")
            => LiveContent(liveRegions', liveLast'.level) = liveLast'.text]_vars
    /\ [](\A level \in LiveLevels :
            LiveContent(liveRegions, level) \in {"", liveAnnounced[level]})

\* C18 as stated: immediately after any owner announces a non-empty text at a level,
\* that level's surface content is exactly that text; in every reachable state the
\* content is empty or the text of the most recent announcement at that level; and
\* the announcing step leaves the other level's surface unchanged.
C18_LastWriteWins ==
    /\ LastWriteWins
    /\ [][(lastOp' \in LiveOps /\ liveLast'.op = "announce")
            => LiveContent(liveRegions', OtherLevel(liveLast'.level))
                 = LiveContent(liveRegions, OtherLevel(liveLast'.level))]_vars

\* The announcing step was a re-render of an owner that was calling at the other
\* level with clearOnUnmount true.
MovedFromOtherLevel ==
    /\ lastOp' = "LiveRender"
    /\ \E o \in BagToSet(liveOwners), clearOnUnmount \in BOOLEAN :
          /\ o.priority = OtherLevel(liveLast'.level)
          /\ o.clearOnUnmount
          /\ liveOwners' = (liveOwners (-) SetToBag({o}))
                             (+) SetToBag({[message |-> liveLast'.text,
                                            priority |-> liveLast'.level,
                                            clearOnUnmount |-> clearOnUnmount]})

\* C18 amended: as C18, except that the other level's surface is left unchanged
\* only when the owner did not move its call from that level: an owner that
\* re-renders with another priority first runs its cleanup, which empties the
\* surface of the level it leaves if its clearOnUnmount was true.
C18_LastWriteWinsOwnLevel ==
    /\ LastWriteWins
    /\ [][(lastOp' \in LiveOps /\ liveLast'.op = "announce")
            => LET other == OtherLevel(liveLast'.level)
               IN  IF MovedFromOtherLevel
                   THEN LiveContent(liveRegions', other) = ""
                   ELSE LiveContent(liveRegions', other) = LiveContent(liveRegions, other)]_vars

\* C18 witness: an owner has announced a text over a different text that another
\* owner, still mounted, had announced at the same level.
C18_Witness ==
    /\ lastOp \in LiveOps
    /\ liveLast.op = "announce"
    /\ LiveContent(liveRegions, liveLast.level) = liveLast.text
    /\ \E o \in BagToSet(liveOwners) :
          /\ o.priority = liveLast.level
          /\ o.message \in LiveTexts \ {liveLast.text}

\* C19: focus-return restoration is best-effort: when a deactivation (or a re-run
\* of the effect) is to focus an element that is null, has no focus method, or
\* whose focus() throws, no exception leaves the hook and focus stays where it
\* was; in the throwing case a warning is logged.
C19_ReturnBestEffort ==
    [][(frMounted /\ returnOnUnmount /\ lastOp' \in {"FRDeactivate", "FRRerun"})
         => LET e == FRElementToFocus(returnElement, savedElementRef)
                throws == e # NoElement /\ HasFocusMethod(e) /\ FocusThrows(e)
            IN  (e = NoElement \/ ~HasFocusMethod(e) \/ throws)
                  => /\ ~raised'
                     /\ focus' = focus
                     /\ throws => warned']_vars

\* C19 witness: the component has unmounted with a returnElement whose focus()
\* throws while another element held focus: the warning was logged, nothing was
\* raised and focus is still there.
C19_Witness ==
    /\ lastOp = "FRDeactivate"
    /\ ~frMounted
    /\ returnElement = ThrowingObject
    /\ warned
    /\ ~raised
    /\ focus # NoElement

\* C20: no focus-trap operation raises: when focus() on the target throws during
\* activation, during a Tab or Shift+Tab wrap, or during deactivation, no exception
\* leaves the hook.
C20_TrapNeverRaises ==
    lastOp \in {"TrapActivate", "TrapDeactivate", "TrapUnmountActive", "Tab", "ShiftTab"}
      => ~raised

(***************************************************************************)
(* Toast as its stories document it                                        *)
(***************************************************************************)

\* "polite" for info/success, "assertive" for warnings/errors
DocumentedPriority(type) ==
    IF type \in {"warning", "error"} THEN "assertive" ELSE "polite"

\* C21: a Toast announces at politeness "polite" for the types info and success
\* and at "assertive" for the types warning and error: when a toast has just been
\* shown, useAriaLive was given that priority and the live region of that level
\* holds the toast's message.
C21_ToastPoliteness ==
    toastLast.op = "AddToast"
      => /\ toastLast.priority = DocumentedPriority(toastLast.type)
         /\ LiveContent(liveRegions, DocumentedPriority(toastLast.type)) = ToastMessage

\* C22: one Escape keydown on the document closes all visible toasts: onDismiss was
\* called for every toast mounted under the provider, and the list is empty
\* afterwards.
C22_EscapeClosesAll ==
    toastLast.op = "Escape"
      => /\ toastLast.called = toastLast.mounted
         /\ toastList = <<>>

\* C23: a timer-driven onDismiss(id) occurs only for a toast whose duration is
\* positive, that is not paused, and that is not under the pointer while it has
\* pauseOnHover.
C23_AutoDismissRespectsPause ==
    toastLast.op = "TimerFires"
      => /\ toastLast.duration > 0
         /\ ~toastLast.paused
         /\ ~toastLast.hovered

\* C24: on a Modal's cancel event onClose is called exactly when closeOnEscape is
\* true, and the dialog never closes by itself: after any sequence of cancel
\* events, backdrop clicks and renders the dialog is open if and only if the
\* latest isOpen prop is true.
C24_DialogFollowsIsOpen ==
    /\ modalMounted => (dialogOpen <=> modalIsOpen)
    /\ modalLast.op = "Cancel"
         => (modalLast.onCloseCalled <=> modalLast.closeOnEscape)

\* A cancel event with closeOnEscape false after onClose had been called by an
\* earlier event: the dialog is still open.
C24_Witness ==
    /\ modalLast.op = "Cancel"
    /\ ~modalLast.closeOnEscape
    /\ ~modalLast.onCloseCalled
    /\ modalCloseCalls >= 1
    /\ dialogOpen

\* C25: in an Accordion with allowMultiple false at most one item is open in
\* every reachable state, from the initial render on.
C25_AtMostOneOpen ==
    ~accordionAllowMultiple
      => Cardinality({i \in AccordionIds : accordionOpen[i]}) <= 1

\* C26: the focus snapshot lives for one open/close cycle only.  Once a
\* deactivation has restored focus the mounted controller holds no snapshot; and a
\* deactivation in a later cycle that was activated while no element had focus,
\* that has no explicit return target and still holds what its activation left in
\* the snapshot, moves focus nowhere, in particular not to the element an earlier
\* cycle captured.
C26_SnapshotOneCycle ==
    /\ [](frMounted /\ frPhase \in {"deactivated", "deactivatedAgain"}
            => savedElementRef = NoElement)
    /\ [][(/\ lastOp' = "FRDeactivate"
           /\ frOrigin = NoElement
           /\ frCleanup.present
           /\ frCleanup.returnElement = NoElement
           /\ savedElementRef = frFirstSaved)
            => focus' = focus]_vars

\* C27: in the portal Modal, which uses the focus trap and focus return with the
\* same open flag, the snapshot that focus return captures on opening is the
\* element that had focus immediately before the modal opened.
C27_SnapshotIsTrigger ==
    [][(lastOp' = "PortalOpen" /\ focus # NoElement)
         => savedElementRef' = focus]_vars

\* The ids of the tabs rendered with tabIndex 0.
TabStops == {id \in 1..Len(items) : TabIndex(id) = 0}

\* C28: roving tabindex of Tabs: in every reachable state at most one tab has
\* tabIndex 0 and every other tab has tabIndex -1; the one with tabIndex 0 is the
\* selected tab in automatic mode and, in manual mode, the focused tab: the tab
\* holding DOM focus, or the tab marked as focused while focus is elsewhere.
C28_RovingTabindex ==
    /\ Cardinality(TabStops) <= 1
    /\ \A id \in 1..Len(items) : id \notin TabStops => TabIndex(id) = -1
    /\ activationMode = "automatic" => TabStops = {SelectedId} \cap (1..Len(items))
    /\ activationMode = "manual"
         => TabStops = {IF tabFocus # 0 THEN tabFocus
                        ELSE IF focusedId # 0 THEN focusedId ELSE SelectedId}
                         \cap (1..Len(items))

\* C28 witness: manual mode, at least three tabs, DOM focus on a tab that is not
\* the selected one: that tab alone has tabIndex 0.
C28_Witness ==
    /\ activationMode = "manual"
    /\ Len(items) >= 3
    /\ tabFocus # 0
    /\ tabFocus # SelectedId
    /\ TabStops = {tabFocus}
    /\ TabIndex(SelectedId) = -1

EnabledIds == {IdOf(k) : k \in EnabledIndices}

\* C29: no Tabs input selects a disabled item: every id a click or keydown passes
\* to onSelectionChange or stores as the internal selection is the id of an item
\* that is not disabled, and DOM focus is never moved to a disabled tab.
C29_NoDisabledSelection ==
    [][/\ reported' # reported => reported' \in EnabledIds
       /\ internalSelectedId' # internalSelectedId => internalSelectedId' \in EnabledIds
       /\ (tabFocus' # tabFocus /\ tabFocus' # 0) => tabFocus' \in EnabledIds]_vars

\* C29 witness: in automatic mode a key stepped over at least one disabled tab,
\* and the tab it arrived at, which is not disabled, was selected and focused.
C29_Witness ==
    /\ lastOp = "KeyDownApply"
    /\ activationMode = "automatic"
    /\ keyIterations >= 1
    /\ keyNewIndex # keyCurrentIndex
    /\ ~ItemDisabled(items, keyNewIndex)
    /\ tabFocus = IdOf(keyNewIndex)
    /\ (IF hasOnSelectionChange THEN reported ELSE internalSelectedId) = tabFocus

\* C30: in an uncontrolled Tabs (no selectedId prop) a click on an enabled tab, or
\* an arrow, Home or End key that moves focus in automatic mode, makes the tab it
\* lands on the selected tab, with or without an onSelectionChange callback.
C30_UncontrolledSelects ==
    [][(/\ controlledSelectedId = 0
        /\ \/ lastOp' = "TabsClick"
           \/ /\ lastOp' = "TabsKey"
              /\ activationMode = "automatic"
              /\ IsNavigationKey(lastKey'.key) \/ IsArrowKey(lastKey'.key)
              /\ tabFocus' # tabFocus)
         => SelectedId' = tabFocus']_vars

====
